---------------------------- MODULE Spec2Model ----------------------------
(***************************************************************************)
(* A model of the query-classification-and-retrieval pipeline of the CFG   *)
(* Ukraine analytics service: the query classifier (pattern pre-filter,    *)
(* model call, heuristic fallback), the OneLake data service (ETag smart   *)
(* cache, account hierarchy index, metric resolution) and the RAG          *)
(* retriever's category handlers.                                          *)
(*                                                                         *)
(* Text is modelled by TLA+ strings; TLC evaluates Len, \o and SubSeq on   *)
(* them, so substring search, lower-casing, stripping and the regular      *)
(* expressions are computed character by character.  Confidences are kept  *)
(* in hundredths (0.95 is 95).                                             *)
(***************************************************************************)
EXTENDS Integers, Sequences, FiniteSets, TLC

VARIABLES
    \* ---- QueryClassifierAgent ----
    query,            \* the text handed to classify
    client,           \* TRUE iff an OpenAI client is configured (self.client)
    llm_response,     \* what the model call of the last classify produced
    llm_called,       \* TRUE iff the last classify called chat.completions.create
    classification,   \* what the last classify returned
    \* ---- OneLake ----
    storage,          \* file path -> the rows the lakehouse holds and their ETag
    online,           \* TRUE iff calls to the lakehouse succeed
    \* ---- OneLakeConnector ----
    connector_etag_cache,   \* connector._etag_cache: file path -> ETag
    \* ---- OneLakeDataService ----
    data_cache,       \* _data_cache: filename -> frame
    etag_cache,       \* _etag_cache: filename -> ETag
    last_check,       \* _last_check: filename -> minutes since the stored time
    account_hierarchy,      \* _account_hierarchy
    svc_result,       \* what the last call on the service returned
    \* ---- get_all_descendants, stepwise ----
    parent_to_children,     \* the mapping the traversal reads
    call_stack,       \* frames of the calls in progress
    visited,          \* the visited set of the traversal
    returned,         \* what the outermost call returned
    \* ---- callers on threads ----
    callers           \* thread -> the frame of the call it is in

clsVars  == <<query, client, llm_response, llm_called, classification>>
envVars  == <<storage, online>>
svcVars  == <<connector_etag_cache, data_cache, etag_cache, last_check,
              account_hierarchy, svc_result>>
travVars == <<parent_to_children, call_stack, visited, returned>>

vars == <<clsVars, envVars, svcVars, travVars, callers>>

(***************************************************************************)
(*                               Strings                                   *)
(***************************************************************************)

\* The i-th character of s, as a one-character string.
Ch(s, i) == SubSeq(s, i, i)

\* Python's  t in s  for strings.
Contains(s, t) ==
    \E i \in 1..(Len(s) - Len(t) + 1) : SubSeq(s, i, i + Len(t) - 1) = t

UpperLetters == "ABCDEFGHIJKLMNOPQRSTUVWXYZ"
LowerLetters == "abcdefghijklmnopqrstuvwxyz"

LowerChar(c) ==
    IF \E i \in 1..Len(UpperLetters) : Ch(UpperLetters, i) = c
    THEN Ch(LowerLetters, CHOOSE i \in 1..Len(UpperLetters) : Ch(UpperLetters, i) = c)
    ELSE c

RECURSIVE LowerFrom(_, _)
LowerFrom(s, i) ==
    IF i > Len(s) THEN "" ELSE LowerChar(Ch(s, i)) \o LowerFrom(s, i + 1)

\* str.lower()
Lower(s) == LowerFrom(s, 1)

\* The characters str.strip() and the regular expressions' \s take for blank.
Whitespace == {" ", "\t", "\n", "\r"}

\* str.strip()
Strip(s) ==
    LET keep == {i \in 1..Len(s) : Ch(s, i) \notin Whitespace}
        lo   == CHOOSE i \in keep : \A j \in keep : i <= j
        hi   == CHOOSE i \in keep : \A j \in keep : j <= i
    IN  IF keep = {} THEN "" ELSE SubSeq(s, lo, hi)

(***************************************************************************)
(*                         Regular expressions                             *)
(* A pattern is a tree of records; Ends(re, s, P) is the set of positions  *)
(* (0..Len(s), counted in characters consumed) where a match of re that    *)
(* starts at a position of P can end.                                      *)
(***************************************************************************)

Lit(t)    == [k |-> "lit",  t |-> t,  c |-> {}, a |-> <<>>]
Cls(c)    == [k |-> "cls",  t |-> "", c |-> c,  a |-> <<>>]
Dot       == [k |-> "dot",  t |-> "", c |-> {}, a |-> <<>>]
Bol       == [k |-> "bol",  t |-> "", c |-> {}, a |-> <<>>]
Eol       == [k |-> "eol",  t |-> "", c |-> {}, a |-> <<>>]
Cat(a)    == [k |-> "cat",  t |-> "", c |-> {}, a |-> a]
Alt(a)    == [k |-> "alt",  t |-> "", c |-> {}, a |-> a]
Star(r)   == [k |-> "star", t |-> "", c |-> {}, a |-> <<r>>]
Plus(r)   == Cat(<<r, Star(r)>>)
Opt(r)    == Alt(<<r, Lit("")>>)

\* t occurs in s right after the first q characters.
StartsAt(s, q, t) ==
    q + Len(t) <= Len(s) /\ (Len(t) = 0 \/ SubSeq(s, q + 1, q + Len(t)) = t)

RECURSIVE Ends(_, _, _)
RECURSIVE EndsCat(_, _, _, _)
RECURSIVE EndsStar(_, _, _)

Ends(re, s, P) ==
    CASE re.k = "lit"  -> {p + Len(re.t) : p \in {q \in P : StartsAt(s, q, re.t)}}
      [] re.k = "cls"  -> {p + 1 : p \in {q \in P : q < Len(s) /\ Ch(s, q + 1) \in re.c}}
      [] re.k = "dot"  -> {p + 1 : p \in {q \in P : q < Len(s) /\ Ch(s, q + 1) # "\n"}}
      [] re.k = "bol"  -> P \cap {0}
      [] re.k = "eol"  -> P \cap {Len(s)}
      [] re.k = "cat"  -> EndsCat(re.a, 1, s, P)
      [] re.k = "alt"  -> UNION {Ends(re.a[i], s, P) : i \in 1..Len(re.a)}
      [] re.k = "star" -> EndsStar(re.a[1], s, P)

EndsCat(a, i, s, P) ==
    IF i > Len(a) \/ P = {} THEN P ELSE EndsCat(a, i + 1, s, Ends(a[i], s, P))

EndsStar(r, s, P) ==
    LET Q == P \cup Ends(r, s, P)
    IN  IF Q = P THEN P ELSE EndsStar(r, s, Q)

\* pattern.search(s): a match starting anywhere.
Search(re, s) == Ends(re, s, 0..Len(s)) # {}


(***************************************************************************)
(*                    QueryClassifierAgent: the tables                     *)
(***************************************************************************)

S0 == Star(Cls(Whitespace))          \* \s*
S1 == Plus(Cls(Whitespace))          \* \s+
GreetTail == Star(Cls(Whitespace \cup {"!", "?", ".", ","}))   \* [\s\!\?\.\,]*
BareTail  == Star(Cls(Whitespace \cup {"?", "!"}))             \* [\s\?\!]*

\* GENERAL_PATTERNS, in the order of the list; all are compiled with
\* re.IGNORECASE and searched in the lower-cased, stripped query.
GENERAL_PATTERNS == <<
    Cat(<<Bol, Alt(<<Lit("hi"), Lit("hello"), Lit("hey"),
                     Cat(<<Lit("good"), S0,
                           Alt(<<Lit("morning"), Lit("afternoon"), Lit("evening")>>)>>),
                     Lit("greetings")>>), GreetTail, Eol>>),
    Cat(<<Bol, Alt(<<Lit("hi"), Lit("hello"), Lit("hey")>>), S1, Lit("there"),
          GreetTail, Eol>>),
    Cat(<<Alt(<<Lit("what can you"), Lit("what do you"), Lit("how can you"),
                Lit("how do you")>>), S0,
          Alt(<<Lit("do"), Lit("help"), Lit("assist")>>)>>),
    Cat(<<Alt(<<Lit("help"), Lit("assist")>>), S0, Lit("me")>>),
    Cat(<<Lit("what"), S0, Opt(Cat(<<Lit("are"), S1>>)),
          Alt(<<Lit("your"), Lit("the")>>), S0,
          Alt(<<Lit("capabilities"), Lit("features"), Lit("functions")>>)>>),
    Cat(<<Alt(<<Lit("what"), Lit("which")>>), S0,
          Alt(<<Lit("data"), Lit("database"), Lit("backend"), Lit("system"),
                Lit("technology"), Lit("stack")>>)>>),
    Cat(<<Lit("how"), S0, Alt(<<Lit("does"), Lit("do")>>), S0,
          Alt(<<Lit("this"), Lit("the"), Lit("you"), Lit("it")>>), S0,
          Alt(<<Lit("system"), Lit("work"), Lit("function")>>)>>),
    Cat(<<Alt(<<Lit("what"), Lit("how")>>), S0, Alt(<<Lit("are"), Lit("is")>>), S0,
          Alt(<<Lit("you"), Lit("this")>>), S0,
          Alt(<<Lit("built"), Lit("made"), Lit("created"), Lit("using")>>)>>),
    Cat(<<Alt(<<Lit("tell"), Lit("explain")>>), Star(Dot),
          Alt(<<Lit("about"), Lit("how")>>), Star(Dot),
          Alt(<<Lit("yourself"), Lit("this system"), Lit("you work")>>)>>),
    Cat(<<Lit("what"), S0, Alt(<<Lit("kind of"), Lit("type of")>>), S0,
          Alt(<<Lit("data"), Lit("information"), Lit("system")>>)>>),
    Cat(<<Alt(<<Lit("where"), Lit("how")>>), S0, Alt(<<Lit("do"), Lit("does")>>), S0,
          Alt(<<Lit("the"), Lit("your")>>), S0, Lit("data"), S0,
          Alt(<<Lit("come"), Lit("from")>>)>>),
    Cat(<<Bol, Lit("what"), BareTail, Eol>>),
    Cat(<<Bol, Lit("how"), BareTail, Eol>>),
    Cat(<<Bol, Lit("why"), BareTail, Eol>>)
>>

FINANCIAL_KEYWORDS == {
    "ebitda", "revenue", "profit", "margin", "cost", "expense", "income",
    "cash flow", "cashflow", "balance", "asset", "liability", "equity",
    "roi", "roic", "roe", "gross", "net", "operating", "capex", "opex",
    "budget", "actual", "forecast", "variance", "trend", "growth",
    "production", "yield", "volume", "efficiency", "kpi",
    "q1", "q2", "q3", "q4", "fy", "ytd", "mtd", "yoy", "qoq",
    "2020", "2021", "2022", "2023", "2024", "2025",
    "january", "february", "march", "april", "may", "june",
    "july", "august", "september", "october", "november", "december",
    "quarter", "annual", "monthly", "weekly", "daily",
    "cfg", "ukraine", "department", "segment", "entity" }

\* The five values of QueryCategory.
QueryCategory == {"general", "descriptive", "diagnostic", "predictive", "prescriptive"}

(***************************************************************************)
(*                 JSON values of a model response                         *)
(* A scalar is [t, n, s]: t is its JSON type ("missing" when the key is    *)
(* absent), n its number (hundredths for a confidence; 1/0 for true/false) *)
(* and s its string.                                                       *)
(***************************************************************************)

JMissing == [t |-> "missing", n |-> 0, s |-> ""]
JNull    == [t |-> "null",    n |-> 0, s |-> ""]
JNum(n)  == [t |-> "num",     n |-> n, s |-> ""]
JStr(s)  == [t |-> "str",     n |-> 0, s |-> s]
JBool(b) == [t |-> "bool",    n |-> IF b THEN 1 ELSE 0, s |-> ""]

\* A JSON array of strings, or what stands in its place.
JList(l)     == [t |-> "list",    l |-> l]
JListMissing == [t |-> "missing", l |-> <<>>]
JListNull    == [t |-> "null",    l |-> <<>>]
JListStr     == [t |-> "str",     l |-> <<>>]

\* The "temporal" block: an object with its four keys, or what stands in its place.
JTemporal(t, sp, ep, g, f) ==
    [t |-> t, start_period |-> sp, end_period |-> ep, granularity |-> g, is_forecast |-> f]
JTemporalIs(t) == JTemporal(t, JMissing, JMissing, JMissing, JMissing)

\* What chat.completions.create and json.loads produce:
\*   kind "raise": the call raises;  "none": message.content is None;
\*   "text": the content is not JSON;  "list": JSON, but not an object;
\*   "json": a JSON object with the keys below.
Response(kind, cat, conf, mets, dims, temp, cmp, why) ==
    [kind |-> kind, category |-> cat, confidence |-> conf, metrics |-> mets,
     dimensions |-> dims, temporal |-> temp, comparison_type |-> cmp, reasoning |-> why]
ResponseOfKind(kind) ==
    Response(kind, JMissing, JMissing, JListMissing, JListMissing,
             JTemporalIs("missing"), JMissing, JMissing)
NoResponse == ResponseOfKind("not_called")

(***************************************************************************)
(*                 QueryClassification and TemporalContext                 *)
(***************************************************************************)

\* TemporalContext(): every field at its default.
DefaultTemporal ==
    [start_period |-> JNull, end_period |-> JNull, granularity |-> JNull,
     is_forecast |-> FALSE]

\* QueryClassification(category, confidence, reasoning) with the other fields
\* at their defaults.
MakeClassification(cat, conf, why) ==
    [category |-> cat, confidence |-> conf, metrics |-> <<>>, dimensions |-> <<>>,
     temporal |-> DefaultTemporal, comparison_type |-> JNull, reasoning |-> why]

\* The value of `classification` before any classify has returned.
NoClassification == MakeClassification("none", 0, "")

\* pydantic's validation of one field; ok = FALSE is a ValidationError.
\* Optional[str]: None or a string.
ValidOptStr(j) == j.t \in {"missing", "null", "str"}
OptStrOf(j)    == IF j.t = "str" THEN j ELSE JNull
\* ValidConfidence without the bounds of Field(ge=0, le=1).
ValidConfidenceUnbounded(j) == j.t \in {"num", "bool"}
\* float with Field(ge=0, le=1): a number (true/false count as 1/0) in range.
ValidConfidence(j) == j.t \in {"num", "bool"} /\ 0 <= j.n /\ j.n <= 100
\* bool: true/false, or the numbers 0 and 1.
ValidBool(j) == j.t = "bool" \/ (j.t = "num" /\ j.n \in {0, 1})
\* List[str]
ValidList(j) == j.t = "list"

\* result.get(key, default) for a scalar and for a list.
GetOr(j, default)  == IF j.t = "missing" THEN default ELSE j

\* classify, lines 192-217: parse the response and build the QueryClassification.
\* ok = FALSE stands for any exception raised inside the try block.
BuildClassification(r) ==
    LET conf  == GetOr(r.confidence, JNum(80))
        mets  == GetOr(r.metrics, JList(<<>>))
        dims  == GetOr(r.dimensions, JList(<<>>))
        \* result.get("temporal", {}): a missing block reads as an empty object
        temp  == IF r.temporal.t = "missing" THEN JTemporalIs("obj") ELSE r.temporal
        fc    == GetOr(temp.is_forecast, JBool(FALSE))
        why   == GetOr(r.reasoning, JStr(""))
        ok    == /\ r.kind = "json"
                 /\ r.category.t = "str" /\ r.category.s \in QueryCategory
                 /\ ValidConfidence(conf)
                 /\ ValidList(mets) /\ ValidList(dims)
                 /\ temp.t = "obj"
                 /\ ValidOptStr(temp.start_period) /\ ValidOptStr(temp.end_period)
                 /\ ValidOptStr(temp.granularity) /\ ValidBool(fc)
                 /\ ValidOptStr(r.comparison_type)
                 /\ why.t = "str"
    IN  IF ok
        THEN [ok  |-> TRUE,
              val |-> [category |-> r.category.s, confidence |-> conf.n,
                       metrics |-> mets.l, dimensions |-> dims.l,
                       temporal |-> [start_period |-> OptStrOf(temp.start_period),
                                     end_period   |-> OptStrOf(temp.end_period),
                                     granularity  |-> OptStrOf(temp.granularity),
                                     is_forecast  |-> fc.n # 0],
                       comparison_type |-> OptStrOf(r.comparison_type),
                       reasoning |-> why.s]]
        ELSE [ok |-> FALSE, val |-> NoClassification]

(***************************************************************************)
(*                      QueryClassifierAgent: the code                     *)
(***************************************************************************)

\* any(kw in text for kw in self.FINANCIAL_KEYWORDS)
AnyKeyword(text, kws) == \E kw \in kws : Contains(text, kw)

\* _has_financial_context
HasFinancialContext(q) == AnyKeyword(Lower(q), FINANCIAL_KEYWORDS)

\* _is_general_query searching the text as given, without strip().
IsGeneralQueryUnstripped(q) ==
    LET query_lower == Lower(q)
    IN  \E i \in 1..Len(GENERAL_PATTERNS) :
            /\ Search(GENERAL_PATTERNS[i], query_lower)
            /\ ~AnyKeyword(query_lower, FINANCIAL_KEYWORDS)

\* _is_general_query without the financial-keyword override.
IsGeneralQueryPatternOnly(q) ==
    LET query_lower == Strip(Lower(q))
    IN  \E i \in 1..Len(GENERAL_PATTERNS) : Search(GENERAL_PATTERNS[i], query_lower)

\* _is_general_query: some pattern matches, and no financial keyword occurs.
IsGeneralQuery(q) ==
    LET query_lower == Strip(Lower(q))
    IN  \E i \in 1..Len(GENERAL_PATTERNS) :
            /\ Search(GENERAL_PATTERNS[i], query_lower)
            /\ ~AnyKeyword(query_lower, FINANCIAL_KEYWORDS)

DiagnosticCues   == {"why", "cause", "reason", "explain why", "due to"}
PredictiveCues   == {"forecast", "predict", "project", "expect", "will be",
                     "next year", "next quarter"}
PrescriptiveCues == {"recommend", "should we", "improve", "optimize", "suggest",
                     "how to", "how can we"}
DescriptiveCues  == {"show", "display", "trend", "history", "what was", "what is",
                     "how much"}

\* _fallback_classification with the predictive cues tried before the
\* diagnostic ones.
FallbackClassificationPredictiveFirst(q) ==
    LET query_lower == Strip(Lower(q))
    IN  IF IsGeneralQuery(q)
        THEN MakeClassification("general", 90, "Fallback: Detected as general/meta question")
        ELSE IF ~HasFinancialContext(q)
        THEN MakeClassification("general", 70, "Fallback: No financial context detected")
        ELSE IF AnyKeyword(query_lower, PredictiveCues)
        THEN MakeClassification("predictive", 75, "Fallback keyword-based classification")
        ELSE IF AnyKeyword(query_lower, DiagnosticCues)
        THEN MakeClassification("diagnostic", 75, "Fallback keyword-based classification")
        ELSE IF AnyKeyword(query_lower, PrescriptiveCues)
        THEN MakeClassification("prescriptive", 75, "Fallback keyword-based classification")
        ELSE IF AnyKeyword(query_lower, DescriptiveCues)
        THEN MakeClassification("descriptive", 70, "Fallback keyword-based classification")
        ELSE MakeClassification("descriptive", 60, "Fallback keyword-based classification")

\* _fallback_classification
FallbackClassification(q) ==
    LET query_lower == Strip(Lower(q))
    IN  IF IsGeneralQuery(q)
        THEN MakeClassification("general", 90, "Fallback: Detected as general/meta question")
        ELSE IF ~HasFinancialContext(q)
        THEN MakeClassification("general", 70, "Fallback: No financial context detected")
        ELSE IF AnyKeyword(query_lower, DiagnosticCues)
        THEN MakeClassification("diagnostic", 75, "Fallback keyword-based classification")
        ELSE IF AnyKeyword(query_lower, PredictiveCues)
        THEN MakeClassification("predictive", 75, "Fallback keyword-based classification")
        ELSE IF AnyKeyword(query_lower, PrescriptiveCues)
        THEN MakeClassification("prescriptive", 75, "Fallback keyword-based classification")
        ELSE IF AnyKeyword(query_lower, DescriptiveCues)
        THEN MakeClassification("descriptive", 70, "Fallback keyword-based classification")
        ELSE MakeClassification("descriptive", 60, "Fallback keyword-based classification")

\* The classification the pattern pre-filter returns (classify, lines 171-175).
PreFilterClassification ==
    MakeClassification("general", 95,
                       "Detected as general/meta question (not about CFG Ukraine data)")

(***************************************************************************)
(*             The queries and model responses that are explored           *)
(***************************************************************************)

\* Longest query, in words of Words.
MaxWords == 2

\* Pieces that queries are put together from: a greeting, a help request and
\* a meta question (general patterns), a capitalised metric name, a word
\* that merely contains a keyword ("may"), one cue word of each category,
\* a descriptive cue that is itself a keyword ("trend"), and a blank.
Words == {"Hello", "help me", "what data", "Revenue", "maybe",
          "Why", "forecast", "improve", "show", "trend", " "}

RECURSIVE JoinWords(_)
JoinWords(ws) ==
    IF Len(ws) = 0 THEN ""
    ELSE IF Len(ws) = 1 THEN ws[1]
    ELSE ws[1] \o " " \o JoinWords(Tail(ws))

Queries == {JoinWords(ws) : ws \in UNION {[1..n -> Words] : n \in 0..MaxWords}}

CategoryOptions ==
    {JMissing, JNull, JNum(1), JStr("GENERAL"), JStr("bogus")}
        \cup {JStr(c) : c \in QueryCategory}
ConfidenceOptions ==
    {JMissing, JNull, JStr("high"), JNum(-10), JNum(0), JNum(90), JNum(100), JNum(150)}
TemporalOptions ==
    {JTemporalIs("missing"), JTemporalIs("null"), JTemporalIs("str"), JTemporalIs("obj"),
     JTemporal("obj", JStr("2024-Q1"), JStr("2024-Q4"), JStr("quarterly"), JBool(TRUE)),
     JTemporal("obj", JNull, JNull, JStr("weekly"), JBool(FALSE)),
     JTemporal("obj", JNull, JNum(2024), JNull, JBool(FALSE)),
     JTemporal("obj", JNull, JNull, JNull, JNull)}
MetricsOptions == {JListMissing, JListNull, JListStr, JList(<<>>), JList(<<"revenue">>)}
ComparisonOptions == {JMissing, JNull, JStr("YoY"), JStr("MoM"), JNum(1)}
ReasoningOptions == {JMissing, JNull, JStr("because")}

\* A JSON object with the given keys and the rest well-formed.
GoodResponse(cat, conf, mets, temp, cmp, why) ==
    Response("json", cat, conf, mets, JList(<<>>), temp, cmp, why)

\* The four failures that yield no JSON object, and objects in which one key
\* at a time (two for the confidence) departs from a well-formed answer.
Responses ==
    {ResponseOfKind(k) : k \in {"raise", "none", "text", "list"}}
    \cup {GoodResponse(c, JNum(90), JList(<<"revenue">>), JTemporalIs("obj"), JNull,
                       JStr("because")) : c \in CategoryOptions}
    \cup {GoodResponse(c, f, JList(<<"revenue">>), JTemporalIs("obj"), JNull,
                       JStr("because"))
            : c \in {JStr("predictive"), JMissing}, f \in ConfidenceOptions}
    \cup {GoodResponse(JStr("descriptive"), f, m, JTemporalIs("obj"), JMissing, JMissing)
            : f \in {JNum(90), JMissing}, m \in MetricsOptions}
    \cup {GoodResponse(JStr("descriptive"), f, JListMissing, t, JMissing, JMissing)
            : f \in {JNum(90), JMissing}, t \in TemporalOptions}
    \cup {GoodResponse(JStr("diagnostic"), JNum(90), JListMissing, JTemporalIs("missing"),
                       c, JStr("because")) : c \in ComparisonOptions}
    \cup {GoodResponse(JStr("diagnostic"), JNum(90), JListMissing, JTemporalIs("missing"),
                       JStr("YoY"), w) : w \in ReasoningOptions}

(***************************************************************************)
(*                   QueryClassifierAgent: the operations                  *)
(***************************************************************************)

\* What classify computes from the query text alone, tabulated once per query
\* (the value of _is_general_query and of _fallback_classification).
QueryFacts ==
    [q \in Queries |-> [general  |-> IsGeneralQuery(q),
                        fallback |-> FallbackClassification(q)]]

\* classify, lines 181-230: the model was called and produced r.
ClassifyWithModel(q, r) ==
    LET built == BuildClassification(r)
    IN  IF built.ok THEN built.val ELSE QueryFacts[q].fallback

\* classify: the whole method.  The response is what the model call would
\* produce; it is consulted only on the path that makes the call.
Classify(q) ==
    LET general  == QueryFacts[q].general
        fallback == QueryFacts[q].fallback
    IN  /\ query' = q
        /\ UNCHANGED client
        /\ IF general
           THEN /\ classification' = PreFilterClassification
                /\ llm_called' = FALSE
                /\ llm_response' = NoResponse
           ELSE IF ~client
           THEN /\ classification' = fallback
                /\ llm_called' = FALSE
                /\ llm_response' = NoResponse
           ELSE \E r \in Responses :
                /\ classification' = ClassifyWithModel(q, r)
                /\ llm_called' = TRUE
                /\ llm_response' = r

ClsInit ==
    /\ query = ""
    /\ client \in BOOLEAN
    /\ llm_response = NoResponse
    /\ llm_called = FALSE
    /\ classification = NoClassification

\* The caller has taken the result; the agent keeps nothing of the call
\* (its only field besides the compiled patterns is the client).
ClsReturn ==
    /\ classification # NoClassification
    /\ query' = ""
    /\ llm_response' = NoResponse
    /\ llm_called' = FALSE
    /\ classification' = NoClassification
    /\ UNCHANGED client

\* A caller hands some query to an agent that is not in a call.
ClassifyAny ==
    /\ classification = NoClassification
    /\ \E q \in Queries : Classify(q)

(***************************************************************************)
(*                  Dictionaries, data frames, the lakehouse               *)
(***************************************************************************)

\* A Python dict is a function whose domain is the set of its keys.
EmptyDict == [k \in {} |-> 0]
Put(d, k, v) == [j \in DOMAIN d \cup {k} |-> IF j = k THEN v ELSE d[j]]
Remove(d, k) == [j \in DOMAIN d \ {k} |-> d[j]]

\* A data frame is the sequence of its rows.  A cell pandas reads as NaN
\* (an empty cell, or the text NaN) holds this marker.
NaN == "NaN"
\* Python's None where a string may stand.
None == "<None>"
AccountRow(account, parent) == [Account |-> account, Parent |-> parent]

ACCOUNTS_FILE == "FCC_ACCOUNT_BI.csv"
ACTUAL_FILE   == "FCCS_ACTUAL_POWERBI.csv"
Files == {ACCOUNTS_FILE, ACTUAL_FILE}

\* settings.onelake_lakehouse_id, and _get_file_path.
LakehouseId == "lakehouse"
FilePath(filename) == LakehouseId \o "/Files/FCCS/" \o filename

\* cache_check_interval, in minutes.
CheckInterval == 5

\* The ETag get_file_metadata's caller falls back to when the metadata call
\* failed: metadata.get('etag', '').  Real ETags are the positive numbers.
EmptyEtag == 0

(***************************************************************************)
(*              OneLakeDataService: the account hierarchy index            *)
(***************************************************************************)

\* all_parents and all_accounts of _build_account_hierarchy.
AllParents(df)  == {df[i].Parent : i \in 1..Len(df)} \ {NaN}
AllAccounts(df) == {df[i].Account : i \in 1..Len(df)}

\* parent_to_children: for every non-NaN parent, its children in row order.
RECURSIVE ChildrenFrom(_, _, _)
ChildrenFrom(df, parent, i) ==
    IF i > Len(df) THEN <<>>
    ELSE (IF df[i].Parent = parent THEN <<df[i].Account>> ELSE <<>>)
         \o ChildrenFrom(df, parent, i + 1)

ParentToChildren(df) == [p \in AllParents(df) |-> ChildrenFrom(df, p, 1)]

\* parent_to_children.get(account_name, [])
ChildrenOf(p2c, account_name) ==
    IF account_name \in DOMAIN p2c THEN p2c[account_name] ELSE <<>>

\* "if account_name in visited: return set()"
RevisitedNever(account_name, seen) == FALSE
Revisited(account_name, seen) == account_name \in seen

\* "if child in parent_to_children": the child is a branch, not a leaf.
ChildIsBranchNever(p2c, child) == FALSE
ChildIsBranch(p2c, child) == child \in DOMAIN p2c

\* get_all_descendants(account_name, visited).  The visited set is one
\* mutable object shared by the whole recursion, so the operator hands it
\* back together with the descendants.
RECURSIVE get_all_descendants(_, _, _), ForEachChild(_, _, _, _, _)
get_all_descendants(p2c, account_name, seen) ==
    IF Revisited(account_name, seen)
    THEN [descendants |-> {}, visited |-> seen]
    ELSE ForEachChild(p2c, ChildrenOf(p2c, account_name), 1, {},
                      seen \cup {account_name})

\* The loop "for child in children" from its i-th iteration on.
ForEachChild(p2c, children, i, descendants, seen) ==
    IF i > Len(children)
    THEN [descendants |-> descendants, visited |-> seen]
    ELSE LET child == children[i]
         IN  IF ChildIsBranch(p2c, child)
             THEN LET r == get_all_descendants(p2c, child, seen)
                  IN  ForEachChild(p2c, children, i + 1,
                                   descendants \cup r.descendants, r.visited)
             ELSE ForEachChild(p2c, children, i + 1,
                               descendants \cup {child}, seen)

\* The top-level call of line 177: visited defaults to a fresh set.
DescendantsOf(p2c, account) == get_all_descendants(p2c, account, {}).descendants

\* The index _build_account_hierarchy computes from the accounts frame: an
\* entry for every parent or account whose descendants are not empty.
BuildIndex(df) ==
    LET p2c  == ParentToChildren(df)
        desc == [a \in AllParents(df) \cup AllAccounts(df) |-> DescendantsOf(p2c, a)]
    IN  [a \in {b \in DOMAIN desc : desc[b] # {}} |-> desc[a]]

\* self._account_hierarchy: None, or a dict.
HierarchyNone == [set |-> FALSE, index |-> EmptyDict]
HierarchyOf(index) == [set |-> TRUE, index |-> index]

(***************************************************************************)
(*          OneLakeConnector and the data service's smart cache            *)
(*                                                                         *)
(* A method that calls other methods is computed on a record S of the      *)
(* objects' fields and returns the fields it leaves behind together with   *)
(* its outcome, so that one action can run a whole handler.  E is what the *)
(* lakehouse holds and whether it answers.                                 *)
(***************************************************************************)

\* The fields of the service and of its connector, as they are now.
Svc ==
    [data_cache           |-> data_cache,
     etag_cache           |-> etag_cache,
     last_check           |-> last_check,
     account_hierarchy    |-> account_hierarchy,
     connector_etag_cache |-> connector_etag_cache]

Env == [storage |-> storage, online |-> online]

\* The fields after a call that left S behind.
SvcBecomes(S) ==
    /\ data_cache' = S.data_cache
    /\ etag_cache' = S.etag_cache
    /\ last_check' = S.last_check
    /\ account_hierarchy' = S.account_hierarchy
    /\ connector_etag_cache' = S.connector_etag_cache

\* OneLakeDataService.__init__
NewService ==
    [data_cache           |-> EmptyDict,
     etag_cache           |-> EmptyDict,
     last_check           |-> EmptyDict,
     account_hierarchy    |-> HierarchyNone,
     connector_etag_cache |-> EmptyDict]

\* F applied to the value of v: v is computed once, however often F reads it.
With(v, F(_)) == CHOOSE out \in {F(x) : x \in {v}} : TRUE

\* The outcome of a method: a value, or an exception that left the method.
Returned(S, val) == [ok |-> TRUE, val |-> val, S |-> S]
Raised(S, exception) == [ok |-> FALSE, val |-> [exception |-> exception], S |-> S]
\* An exception of a callee that the caller does not catch.
Propagated(r) == Raised(r.S, r.val.exception)

\* _should_check_etag that asks for a check on every read.
ShouldCheckEtagAlways(S, filename) == TRUE

\* last_check holds, for a file, the minutes elapsed since the time the code
\* stored (datetime.now() - last_check); storing now() stores 0.
ShouldCheckEtag(S, filename) ==
    IF filename \notin DOMAIN S.last_check THEN TRUE
    ELSE S.last_check[filename] > CheckInterval

\* connector.get_file_metadata(...).get('etag', ''): a failure is swallowed
\* and leaves the empty ETag.
CurrentEtag(E, file_path) ==
    IF E.online THEN E.storage[file_path].etag ELSE EmptyEtag

\* has_file_changed without the first-check branch (lines 122-125).
HasFileChangedNoFirstCheck(S, E, file_path) ==
    IF file_path \notin DOMAIN S.connector_etag_cache THEN FALSE
    ELSE CurrentEtag(E, file_path) # S.connector_etag_cache[file_path]

\* connector.has_file_changed, its first component.
HasFileChanged(S, E, file_path) ==
    IF file_path \notin DOMAIN S.connector_etag_cache THEN TRUE
    ELSE CurrentEtag(E, file_path) # S.connector_etag_cache[file_path]

\* connector.has_file_changed: the pair it returns.  A failed metadata call
\* has left the empty ETag, so nothing reaches the except branch of line 134.
has_file_changed(S, E, file_path) ==
    Returned(S, [has_changed |-> HasFileChanged(S, E, file_path),
                 new_etag    |-> CurrentEtag(E, file_path)])

\* connector.update_etag_cache
update_etag_cache(S, file_path, etag) ==
    Returned([S EXCEPT !.connector_etag_cache = Put(@, file_path, etag)], <<>>)

\* connector.read_csv_file: the frame and its ETag, or the exception re-raised.
ReadCsvFile(S, E, file_path) ==
    IF E.online
    THEN LET file == E.storage[file_path]
         IN  Returned([S EXCEPT !.connector_etag_cache =
                                   Put(@, file_path, file.etag)],
                      [df |-> file.rows, etag |-> file.etag])
    ELSE Raised(S, "read_csv_file failed")

\* The load without the stale fallback of lines 120-122.
LoadFromOneLakeNoFallback(S, E, filename) ==
    With(ReadCsvFile(S, E, FilePath(filename)), LAMBDA read :
        IF read.ok
        THEN Returned([read.S EXCEPT
                         !.data_cache = Put(@, filename, read.val.df),
                         !.etag_cache = Put(@, filename, read.val.etag),
                         !.last_check = Put(@, filename, 0)],
                      read.val.df)
        ELSE Propagated(read))

\* _read_csv_with_smart_cache from "Loading ... from OneLake" on (lines 107-123).
LoadFromOneLake(S, E, filename) ==
    With(ReadCsvFile(S, E, FilePath(filename)), LAMBDA read :
        IF read.ok
        THEN Returned([read.S EXCEPT
                         !.data_cache = Put(@, filename, read.val.df),
                         !.etag_cache = Put(@, filename, read.val.etag),
                         !.last_check = Put(@, filename, 0)],
                      read.val.df)
        ELSE IF filename \in DOMAIN S.data_cache
        THEN Returned(read.S, S.data_cache[filename])
        ELSE Propagated(read))

\* _read_csv_with_smart_cache that trusts its copy whatever the ETag check says.
ReadCsvWithSmartCacheNoReload(S, E, filename, force_refresh) ==
    IF filename \in DOMAIN S.data_cache /\ ~force_refresh
    THEN IF ~ShouldCheckEtag(S, filename)
         THEN Returned(S, S.data_cache[filename])
         ELSE LET checked == [S EXCEPT !.last_check = Put(@, filename, 0)]
              IN  Returned(checked, checked.data_cache[filename])
    ELSE LoadFromOneLake(S, E, filename)

\* _read_csv_with_smart_cache
ReadCsvWithSmartCache(S, E, filename, force_refresh) ==
    IF filename \in DOMAIN S.data_cache /\ ~force_refresh
    THEN IF ~ShouldCheckEtag(S, filename)
         THEN Returned(S, S.data_cache[filename])
         ELSE LET has_changed == HasFileChanged(S, E, FilePath(filename))
                  checked == [S EXCEPT !.last_check = Put(@, filename, 0)]
              IN  IF ~has_changed
                  THEN Returned(checked, checked.data_cache[filename])
                  ELSE LoadFromOneLake(checked, E, filename)
    ELSE LoadFromOneLake(S, E, filename)

get_accounts(S, E, force_refresh) ==
    ReadCsvWithSmartCache(S, E, ACCOUNTS_FILE, force_refresh)
get_actual_data(S, E, force_refresh) ==
    ReadCsvWithSmartCache(S, E, ACTUAL_FILE, force_refresh)

\* _build_account_hierarchy, run by one caller from start to end.
BuildAccountHierarchy(S, E) ==
    IF S.account_hierarchy.set
    THEN Returned(S, S.account_hierarchy.index)
    ELSE With(get_accounts(S, E, FALSE), LAMBDA accounts :
             IF ~accounts.ok THEN Propagated(accounts)
             ELSE With(BuildIndex(accounts.val), LAMBDA index :
                      Returned([accounts.S EXCEPT
                                  !.account_hierarchy = HierarchyOf(index)],
                               index)))

\* clear_cache that takes the else branch whatever the argument.
ClearCacheEverything(S, filename) ==
    [S EXCEPT !.data_cache = EmptyDict,
              !.etag_cache = EmptyDict,
              !.last_check = EmptyDict,
              !.account_hierarchy = HierarchyNone]

\* clear_cache(filename): one file's entries, or everything.
ClearCache(S, filename) ==
    IF filename # ""
    THEN [S EXCEPT !.data_cache = Remove(@, filename),
                   !.etag_cache = Remove(@, filename),
                   !.last_check = Remove(@, filename)]
    ELSE [S EXCEPT !.data_cache = EmptyDict,
                   !.etag_cache = EmptyDict,
                   !.last_check = EmptyDict,
                   !.account_hierarchy = HierarchyNone]

\* METRIC_TO_ACCOUNT_MAP, in the order the dict lists its keys.
METRIC_TO_ACCOUNT_MAP ==
    << [key |-> "ebitda",             accounts |-> <<"FCCS_Operating Income">>],
       [key |-> "operating income",   accounts |-> <<"FCCS_Operating Income">>],
       [key |-> "operating profit",   accounts |-> <<"FCCS_Operating Income">>],
       [key |-> "revenue",            accounts |-> <<"FCCS_Sales">>],
       [key |-> "sales",              accounts |-> <<"FCCS_Sales">>],
       [key |-> "gross profit",       accounts |-> <<"FCCS_Gross Profit">>],
       [key |-> "gross margin",       accounts |-> <<"FCCS_Gross Profit">>],
       [key |-> "cost of sales",      accounts |-> <<"FCCS_Cost of Sales">>],
       [key |-> "cogs",               accounts |-> <<"FCCS_Cost of Sales">>],
       [key |-> "operating expenses", accounts |-> <<"FCCS_Operating Expenses">>],
       [key |-> "opex",               accounts |-> <<"FCCS_Operating Expenses">>],
       [key |-> "net income",         accounts |-> <<"FCCS_Net Income">>],
       [key |-> "net profit",         accounts |-> <<"FCCS_Net Income">>],
       [key |-> "income statement",   accounts |-> <<"FCCS_Income Statement">>],
       [key |-> "p&l",                accounts |-> <<"FCCS_Income Statement">>],
       [key |-> "profit and loss",    accounts |-> <<"FCCS_Income Statement">>],
       [key |-> "assets",             accounts |-> <<"FCCS_Total Assets">>],
       [key |-> "current assets",     accounts |-> <<"FCCS_Current Assets">>],
       [key |-> "cash",               accounts |-> <<"FCCS_Cash And Cash Equivalents">>],
       [key |-> "receivables",        accounts |-> <<"FCCS_Acct Receivable">>],
       [key |-> "inventory",          accounts |-> <<"FCCS_Inventories">>],
       [key |-> "liabilities",        accounts |-> <<"FCCS_Total Liabilities">>],
       [key |-> "equity",             accounts |-> <<"FCCS_Total Equity">>],
       [key |-> "balance sheet",      accounts |-> <<"FCCS_Balance Sheet">>],
       [key |-> "retained earnings",  accounts |-> <<"FCCS_Retained Earnings">>] >>

\* The positions of the map whose key satisfies a test, in order.
MapMatches(Test(_)) ==
    {i \in 1..Len(METRIC_TO_ACCOUNT_MAP) : Test(METRIC_TO_ACCOUNT_MAP[i].key)}
Smallest(ns) == CHOOSE n \in ns : \A m \in ns : n <= m

\* The alias map with a metric that matches no key given the first key's
\* accounts.
MapTargetsNeverEmpty(metric_lower) ==
    LET Exact(key) == key = metric_lower
        Fuzzy(key) == Contains(key, metric_lower) \/ Contains(metric_lower, key)
        exact == MapMatches(Exact)
        fuzzy == MapMatches(Fuzzy)
    IN  IF exact # {} THEN METRIC_TO_ACCOUNT_MAP[Smallest(exact)].accounts
        ELSE IF fuzzy # {} THEN METRIC_TO_ACCOUNT_MAP[Smallest(fuzzy)].accounts
        ELSE METRIC_TO_ACCOUNT_MAP[1].accounts

\* The alias map with the substring match tried before the exact match.
MapTargetsFuzzyFirst(metric_lower) ==
    LET Fuzzy(key) == Contains(key, metric_lower) \/ Contains(metric_lower, key)
        fuzzy == MapMatches(Fuzzy)
    IN  IF fuzzy # {} THEN METRIC_TO_ACCOUNT_MAP[Smallest(fuzzy)].accounts
        ELSE <<>>

\* The target accounts the alias map gives (lines 200-207): the exact key,
\* else the first key that contains the metric or is contained in it.
MapTargets(metric_lower) ==
    LET Exact(key) == key = metric_lower
        Fuzzy(key) == Contains(key, metric_lower) \/ Contains(metric_lower, key)
        exact == MapMatches(Exact)
        fuzzy == MapMatches(Fuzzy)
    IN  IF exact # {} THEN METRIC_TO_ACCOUNT_MAP[Smallest(exact)].accounts
        ELSE IF fuzzy # {} THEN METRIC_TO_ACCOUNT_MAP[Smallest(fuzzy)].accounts
        ELSE <<>>

Range(seq) == {seq[i] : i \in 1..Len(seq)}

\* get_account_codes_for_metric, lines 220-229: the codes under the target
\* accounts the index knows.
CodesUnder(S, E, target_accounts) ==
    With(BuildAccountHierarchy(S, E), LAMBDA hierarchy :
        IF ~hierarchy.ok THEN Propagated(hierarchy)
        ELSE Returned(hierarchy.S,
                      UNION {hierarchy.val[name] :
                             name \in target_accounts \cap DOMAIN hierarchy.val}))

\* The target accounts looked up with the metric as it was given.
TargetAccountsAsGiven(S, E, metric) ==
    With(Range(MapTargets(metric)), LAMBDA mapped :
        IF mapped # {}
        THEN Returned(S, mapped)
        ELSE With(BuildAccountHierarchy(S, E), LAMBDA hierarchy :
                 IF ~hierarchy.ok THEN Propagated(hierarchy)
                 ELSE Returned(hierarchy.S,
                               {name \in DOMAIN hierarchy.val :
                                    Contains(Lower(name), metric)})))

\* get_account_codes_for_metric, lines 194-214: the target accounts, from
\* the alias map or else from the names of the index.
TargetAccounts(S, E, metric) ==
    With(Strip(Lower(metric)), LAMBDA metric_lower :
    With(Range(MapTargets(metric_lower)), LAMBDA mapped :
        IF mapped # {}
        THEN Returned(S, mapped)
        ELSE With(BuildAccountHierarchy(S, E), LAMBDA hierarchy :
                 IF ~hierarchy.ok THEN Propagated(hierarchy)
                 ELSE Returned(hierarchy.S,
                               {name \in DOMAIN hierarchy.val :
                                    Contains(Lower(name), metric_lower)}))))

\* get_account_codes_for_metric: the codes as a set (the list's order is
\* that of a Python set).
get_account_codes_for_metric(S, E, metric) ==
    With(TargetAccounts(S, E, metric), LAMBDA target_accounts :
        IF ~target_accounts.ok THEN Propagated(target_accounts)
        ELSE IF target_accounts.val = {} THEN Returned(target_accounts.S, {})
        ELSE CodesUnder(target_accounts.S, E, target_accounts.val))

(***************************************************************************)
(*                 Numbers: quotients are kept as fractions                *)
(***************************************************************************)

Abs(x) == IF x < 0 THEN -x ELSE x
RECURSIVE GCD(_, _)
GCD(a, b) == IF b = 0 THEN a ELSE GCD(b, a % b)

\* n/d in lowest terms with a positive denominator (d # 0).
Rat(n, d) ==
    LET g == GCD(Abs(n), Abs(d))
    IN  IF d < 0 THEN [num |-> (-n) \div g, den |-> (-d) \div g]
                 ELSE [num |-> n \div g, den |-> d \div g]
RatOf(n) == [num |-> n, den |-> 1]
RatTimes(r, n, d) == Rat(r.num * n, r.den * d)
RatPlus(r, q) == Rat(r.num * q.den + q.num * r.den, r.den * q.den)
\* r > k and r < k for an integer k.
RatAbove(r, k) == r.num > k * r.den
RatBelow(r, k) == r.num < k * r.den

\* The integer nearest to r, a tie going to the even one: round(r).
RoundHalfEven(r) ==
    LET twice == 2 * r.den
        q == (2 * r.num + r.den) \div twice
    IN  IF (2 * r.num + r.den) % twice = 0 /\ q % 2 # 0 THEN q - 1 ELSE q
\* round(r, 2) in hundredths, and the value "{:.1f}" prints, in tenths.
Round2(r) == RoundHalfEven(RatTimes(r, 100, 1))
Format1f(r) == RoundHalfEven(RatTimes(r, 10, 1))

(***************************************************************************)
(*   Numbers: IEEE 754 binary64, the arithmetic of numpy's float64 that    *)
(*   the trend is computed in                                              *)
(***************************************************************************)

\* A natural number of any size: its bits, the most significant first, no
\* leading zero; the empty sequence is 0.
RECURSIVE BitsOf(_)
BitsOf(n) == IF n = 0 THEN <<>> ELSE Append(BitsOf(n \div 2), n % 2)
\* The number of zeros a sequence of bits begins with, and ends with.
LeadingZeros(b) == Cardinality({i \in 1..Len(b) : \A j \in 1..i : b[j] = 0})
TrailingZeros(b) == Cardinality({i \in 1..Len(b) : \A j \in i..Len(b) : b[j] = 0})
Trimmed(b) == With(b, LAMBDA v : SubSeq(v, LeadingZeros(v) + 1, Len(v)))
Zeros(n) == [i \in 1..n |-> 0]
Padded(b, n) == Zeros(n - Len(b)) \o b
ShiftLeft(b, n) == IF b = <<>> THEN <<>> ELSE b \o Zeros(n)
Longer(a, b) == IF Len(a) > Len(b) THEN Len(a) ELSE Len(b)
RECURSIVE IntOfBitsTo(_, _)
IntOfBitsTo(b, i) == IF i = 0 THEN 0 ELSE 2 * IntOfBitsTo(b, i - 1) + b[i]
IntOfBits(b) == IntOfBitsTo(b, Len(b))

\* The same number in digits of DigitBits bits (digits below DigitBase), the
\* most significant first, and back.
DigitBits == 10
DigitBase == 1024
DigitsOf(b) ==
    With(Padded(b, DigitBits * ((Len(b) + DigitBits - 1) \div DigitBits)), LAMBDA p :
        [i \in 1..(Len(p) \div DigitBits) |->
            IntOfBits(SubSeq(p, DigitBits * (i - 1) + 1, DigitBits * i))])
BitsOfDigits(ds) ==
    Trimmed([j \in 1..(DigitBits * Len(ds)) |->
                (ds[((j - 1) \div DigitBits) + 1]
                    \div 2^(DigitBits - 1 - ((j - 1) % DigitBits))) % 2])
DigitsPadded(ds, n) == Zeros(n - Len(ds)) \o ds

\* x + y for digit sequences of one length: the carry into digit i comes
\* from a digit to its right that overflows, the digits between full.
CarryInto(x, y, i) ==
    \E j \in (i + 1)..Len(x) :
        /\ x[j] + y[j] >= DigitBase
        /\ \A k \in (i + 1)..(j - 1) : x[k] + y[k] = DigitBase - 1
DigitsPlus(x, y) ==
    [i \in 1..(Len(x) + 1) |->
        IF i = 1 THEN (IF CarryInto(x, y, 0) THEN 1 ELSE 0)
        ELSE (x[i - 1] + y[i - 1] + (IF CarryInto(x, y, i - 1) THEN 1 ELSE 0))
                 % DigitBase]
\* x - y (x >= y) likewise: the borrow from digit i goes to a digit to its
\* right that is too small, the digits between equal.
BorrowFrom(x, y, i) ==
    \E j \in (i + 1)..Len(x) :
        /\ x[j] < y[j]
        /\ \A k \in (i + 1)..(j - 1) : x[k] = y[k]
DigitsMinus(x, y) ==
    [i \in 1..Len(x) |->
        (x[i] - y[i] - (IF BorrowFrom(x, y, i) THEN 1 ELSE 0) + DigitBase)
            % DigitBase]

BitsPlus(a, b) ==
    With(DigitsOf(a), LAMBDA x : With(DigitsOf(b), LAMBDA y :
        BitsOfDigits(DigitsPlus(DigitsPadded(x, Longer(x, y)),
                                DigitsPadded(y, Longer(x, y))))))
\* a - b for a >= b.
BitsMinus(a, b) ==
    With(DigitsOf(a), LAMBDA x : With(DigitsOf(b), LAMBDA y :
        BitsOfDigits(DigitsMinus(x, DigitsPadded(y, Len(x))))))

\* a < b for numbers without leading zeros: the shorter one, or the one
\* with the 0 where they first differ.
CommonPrefix(a, b) == Cardinality({i \in 1..Len(a) : \A j \in 1..i : a[j] = b[j]})
BitsLess(a, b) ==
    \/ Len(a) < Len(b)
    \/ /\ Len(a) = Len(b)
       /\ With(CommonPrefix(a, b) + 1, LAMBDA i : i <= Len(a) /\ a[i] < b[i])

\* b * k for a natural number k.
RECURSIVE BitsTimes(_, _)
BitsTimes(b, k) ==
    IF k = 0 THEN <<>>
    ELSE With(ShiftLeft(BitsTimes(b, k \div 2), 1), LAMBDA twice :
             IF k % 2 = 1 THEN BitsPlus(twice, b) ELSE twice)

\* The number (-1)^neg * m * 2^e, m without leading and trailing zeros.
Dyadic(neg, m, e) ==
    With(Trimmed(m), LAMBDA v :
        IF v = <<>> THEN [neg |-> FALSE, m |-> <<>>, e |-> 0]
        ELSE With(TrailingZeros(v), LAMBDA zeros :
                 [neg |-> neg,
                  m   |-> SubSeq(v, 1, Len(v) - zeros),
                  e   |-> e + zeros]))
Negated(x) == Dyadic(~x.neg, x.m, x.e)

\* The exact sum of two such numbers.
DyadicPlus(x, y) ==
    With(IF x.e < y.e THEN x.e ELSE y.e, LAMBDA e :
    With(ShiftLeft(x.m, x.e - e), LAMBDA mx :
    With(ShiftLeft(y.m, y.e - e), LAMBDA my :
        IF x.neg = y.neg THEN Dyadic(x.neg, BitsPlus(mx, my), e)
        ELSE IF BitsLess(mx, my) THEN Dyadic(y.neg, BitsMinus(my, mx), e)
        ELSE Dyadic(x.neg, BitsMinus(mx, my), e))))

\* The float64 nearest to a number, a tie going to the even significand of
\* 53 bits (no number here leaves the normal range).
SignificandBits == 53
Binary64(x) ==
    IF Len(x.m) <= SignificandBits THEN x
    ELSE LET keep   == SubSeq(x.m, 1, SignificandBits)
             rest   == SubSeq(x.m, SignificandBits + 1, Len(x.m))
             sticky == \E i \in 2..Len(rest) : rest[i] = 1
             up     == rest[1] = 1 /\ (sticky \/ keep[SignificandBits] = 1)
         IN  Dyadic(x.neg, IF up THEN BitsPlus(keep, <<1>>) ELSE keep,
                    x.e + Len(rest))

Float(n) == Dyadic(n < 0, BitsOf(Abs(n)), 0)

\* QuotientDigits digits of r / d after the point (r < d < 2^21), each of
\* DigitBits bits, and the remainder left.
QuotientDigits == 8
RECURSIVE FractionFrom(_, _, _)
FractionFrom(r, d, k) ==
    IF k = 0 THEN [q |-> <<>>, r |-> r]
    ELSE With(FractionFrom((r * DigitBase) % d, d, k - 1), LAMBDA p :
             [q |-> Padded(BitsOf((r * DigitBase) \div d), DigitBits) \o p.q,
              r |-> p.r])

\* n / d in float64: the quotient to QuotientDigits digits, one more bit
\* standing for a remainder, rounded.
FloatQuotient(n, d) ==
    With(FractionFrom(Abs(n) % Abs(d), Abs(d), QuotientDigits), LAMBDA p :
        Binary64(Dyadic((n < 0) # (d < 0),
                        BitsOf(Abs(n) \div Abs(d)) \o p.q
                            \o (IF p.r # 0 THEN <<1>> ELSE <<0>>),
                        -(QuotientDigits * DigitBits) - 1)))

FloatMinus(x, y) == Binary64(DyadicPlus(x, Negated(y)))
FloatTimes(x, k) == Binary64(Dyadic(x.neg # (k < 0), BitsTimes(x.m, Abs(k)), x.e))
\* x > k and x < k for an integer k.
FloatAbove(x, k) == With(DyadicPlus(x, Float(-k)), LAMBDA d : d.m # <<>> /\ ~d.neg)
FloatBelow(x, k) == With(DyadicPlus(x, Float(-k)), LAMBDA d : d.neg)

\* numpy's rint: the nearest integer, a tie going to the even one.
Rint(x) ==
    LET n    == Len(x.m) + x.e
        int  == IF n > 0 THEN SubSeq(x.m, 1, n) ELSE <<>>
        frac == IF n >= 0 THEN SubSeq(x.m, n + 1, Len(x.m)) ELSE <<0>>
        up   == /\ frac[1] = 1
                /\ \/ \E i \in 2..Len(frac) : frac[i] = 1
                   \/ int # <<>> /\ int[Len(int)] = 1
        abs  == IF x.e >= 0 THEN IntOfBits(ShiftLeft(x.m, x.e))
                ELSE IntOfBits(int) + (IF up THEN 1 ELSE 0)
    IN  IF x.neg THEN -abs ELSE abs

\* round(x, 2) of a float64, in hundredths: rint(x * 100), over 100.
FloatRound2(x) == Rint(FloatTimes(x, 100))

(***************************************************************************)
(*                  OneLakeDataService: the analytics methods              *)
(***************************************************************************)

FactRow(period, years, entity, account, amount) ==
    [Period |-> period, Years |-> years, Entity |-> entity,
     Account |-> account, Amount |-> amount]

\* period_order (lines 347-348, 427-428) and periods (lines 452-453).
PERIOD_ORDER ==
    <<"Jan", "Feb", "Mar", "Apr", "May", "Jun",
      "Jul", "Aug", "Sep", "Oct", "Nov", "Dec">>

\* list.index, from 1; 0 when the value is not in the list.
IndexIn(seq, x) ==
    IF \E i \in 1..Len(seq) : seq[i] = x
    THEN Smallest({i \in 1..Len(seq) : seq[i] = x})
    ELSE 0

\* The fiscal years of the data, in the order their labels sort.
YEARS == <<"FY23", "FY24", "FY25">>

Where(df, Keep(_)) == SelectSeq(df, Keep)

RECURSIVE SumAmount(_)
SumAmount(df) == IF df = <<>> THEN 0 ELSE df[1].Amount + SumAmount(Tail(df))

\* The position a sort of the period names as strings gives a group.
SortKeyAlphabetical(row) ==
    LET names == <<"Apr", "Aug", "Dec", "Feb", "Jan", "Jul",
                   "Jun", "Mar", "May", "Nov", "Oct", "Sep">>
        p == IndexIn(names, row.Period)
    IN  IndexIn(YEARS, row.Years) * (Len(names) + 2)
        + (IF p = 0 THEN Len(names) + 1 ELSE p)

\* The position sort_values(['Years', 'Period']) gives a group: by year,
\* then by the period's place in period_order, a period outside it (NaN as
\* a category) last.
SortKey(row) ==
    LET p == IndexIn(PERIOD_ORDER, row.Period)
    IN  IndexIn(YEARS, row.Years) * (Len(PERIOD_ORDER) + 2)
        + (IF p = 0 THEN Len(PERIOD_ORDER) + 1 ELSE p)

RECURSIVE Sorted(_)
Sorted(rows) ==
    IF rows = {} THEN <<>>
    ELSE LET first == CHOOSE r \in rows : \A q \in rows : SortKey(r) <= SortKey(q)
         IN  <<first>> \o Sorted(rows \ {first})

\* groupby(['Period', 'Years']).agg({'Amount': 'sum'}).reset_index(), the
\* Period made categorical, sort_values(['Years', 'Period']).
AggregateByPeriod(df) ==
    LET keys == {<<df[i].Period, df[i].Years>> : i \in 1..Len(df)}
        Group(k) == Where(df, LAMBDA r : r.Period = k[1] /\ r.Years = k[2])
        Category(p) == IF IndexIn(PERIOD_ORDER, p) = 0 THEN NaN ELSE p
    IN  Sorted({[Period |-> Category(k[1]), Years |-> k[2],
                 Amount |-> SumAmount(Group(k))] : k \in keys})

Amounts(summary_df) == [i \in 1..Len(summary_df) |-> summary_df[i].Amount]
Least(ns)    == CHOOSE n \in ns : \A m \in ns : n <= m
Greatest(ns) == CHOOSE n \in ns : \A m \in ns : n >= m
RECURSIVE SumOf(_)
SumOf(amounts) == IF amounts = <<>> THEN 0 ELSE amounts[1] + SumOf(Tail(amounts))

\* The statistics of get_metric_data (lines 354-360), empty series guarded.
Stats(amounts) ==
    [total   |-> SumOf(amounts),
     average |-> IF Len(amounts) > 0 THEN Rat(SumOf(amounts), Len(amounts)) ELSE RatOf(0),
     min     |-> IF Len(amounts) > 0 THEN Least(Range(amounts)) ELSE 0,
     max     |-> IF Len(amounts) > 0 THEN Greatest(Range(amounts)) ELSE 0,
     periods |-> Len(amounts)]

\* ((amounts[-1] / amounts[0]) - 1) * 100 if amounts[0] != 0 else 0, as the
\* exact fraction (rag_retriever line 299, where it is compared with 10 and
\* -5 and printed with one decimal).
Growth(amounts) ==
    IF amounts[1] # 0
    THEN Rat((amounts[Len(amounts)] - amounts[1]) * 100, amounts[1])
    ELSE RatOf(0)

\* The trend block (lines 363-372 and rag_retriever 126-135).
\* The same in float64, as the trend block computes it.
FloatGrowth(amounts) ==
    IF amounts[1] # 0
    THEN FloatTimes(FloatMinus(FloatQuotient(amounts[Len(amounts)], amounts[1]),
                               Float(1)),
                    100)
    ELSE Float(0)
Trend(amounts) ==
    IF Len(amounts) >= 2
    THEN With(FloatGrowth(amounts), LAMBDA growth :
             [direction   |-> IF FloatAbove(growth, 5) THEN "increasing"
                              ELSE IF FloatBelow(growth, -5) THEN "decreasing"
                              ELSE "stable",
              growth_pct  |-> FloatRound2(growth),
              start_value |-> amounts[1],
              end_value   |-> amounts[Len(amounts)]])
    ELSE [direction |-> "insufficient_data", growth_pct |-> 0]

\* if entity: df[df['Entity'].str.contains(entity, na=False, case=False)].
\* The entity is a pattern without special characters.
EntityMatches(row, entity) ==
    \/ entity = None
    \/ entity = ""
    \/ row.Entity # NaN /\ Contains(Lower(row.Entity), Lower(entity))

\* get_metric_data(metric, year, entity), lines 291-384.
get_metric_data(S, E, metric, year, entity) ==
    With(get_account_codes_for_metric(S, E, metric), LAMBDA codes :
        IF ~codes.ok THEN Propagated(codes)
        ELSE IF codes.val = {}
        THEN Returned(codes.S,
                      [data |-> <<>>, has_data |-> FALSE, metric |-> metric,
                       message |-> "No accounts found matching metric: " \o metric])
        ELSE With(get_actual_data(codes.S, E, FALSE), LAMBDA actual :
                 IF ~actual.ok THEN Propagated(actual)
                 ELSE With(Where(actual.val,
                                 LAMBDA r : /\ r.Years = year
                                            /\ EntityMatches(r, entity)
                                            /\ r.Account \in codes.val),
                           LAMBDA df :
                      IF Len(df) = 0
                      THEN Returned(actual.S,
                               [data |-> <<>>, has_data |-> FALSE, metric |-> metric,
                                account_codes |-> codes.val,
                                message |-> "No data found for metric '" \o metric
                                            \o "' in " \o year])
                      ELSE With(AggregateByPeriod(df), LAMBDA summary_df :
                           With(Amounts(summary_df), LAMBDA amounts :
                               Returned(actual.S,
                                   [data |-> summary_df, has_data |-> TRUE,
                                    metric |-> metric, year |-> year,
                                    account_codes |-> codes.val,
                                    account_count |-> Cardinality(codes.val),
                                    summary |-> Stats(amounts),
                                    trend |-> Trend(amounts)]))))))

\* get_financial_summary(year=year), the other filters left at None.
get_financial_summary(S, E, year) ==
    With(get_actual_data(S, E, FALSE), LAMBDA actual :
        IF ~actual.ok THEN Propagated(actual)
        ELSE Returned(actual.S,
                      AggregateByPeriod(
                          IF year # "" THEN Where(actual.val, LAMBDA r : r.Years = year)
                          ELSE actual.val)))

\* The period a comparison that is not month over month is made with, taken
\* for every comparison.
PreviousPeriodSame(period, comparison) ==
    IF IndexIn(PERIOD_ORDER, period) >= 1 THEN period ELSE "Jan"

\* prev_period wrapping from January to December.
PreviousPeriodWrapping(period, comparison) ==
    LET current_idx == IndexIn(PERIOD_ORDER, period)
    IN  IF comparison = "MoM" /\ current_idx > 1
        THEN PERIOD_ORDER[current_idx - 1]
        ELSE IF comparison = "MoM" /\ current_idx = 1
        THEN PERIOD_ORDER[Len(PERIOD_ORDER)]
        ELSE IF current_idx >= 1 THEN PERIOD_ORDER[current_idx]
        ELSE "Jan"

\* prev_period, lines 455-460 (the lists of the model count from 1).
PreviousPeriod(period, comparison) ==
    LET current_idx == IndexIn(PERIOD_ORDER, period)
    IN  IF comparison = "MoM" /\ current_idx > 1
        THEN PERIOD_ORDER[current_idx - 1]
        ELSE IF current_idx >= 1 THEN PERIOD_ORDER[current_idx]
        ELSE "Jan"

\* get_variance_analysis, lines 445-483: the comparison on the loaded rows.
Variance(actual, codes, metric, period, comparison, year) ==
    LET of_year == Where(actual, LAMBDA r : r.Years = year)
        df == IF codes # {}
              THEN Where(of_year, LAMBDA r : r.Account \in codes)
              ELSE of_year
        prev_period == PreviousPeriod(period, comparison)
        current_total == SumAmount(Where(df, LAMBDA r : r.Period = period))
        prev_total    == SumAmount(Where(df, LAMBDA r : r.Period = prev_period))
        variance      == current_total - prev_total
        variance_pct  == IF prev_total # 0
                         THEN Rat(variance * 100, prev_total)
                         ELSE RatOf(0)
    IN  [period |-> period, metric |-> metric, comparison |-> comparison,
         current_value |-> current_total,
         previous_value |-> prev_total,
         previous_period |-> prev_period,
         variance |-> variance,
         variance_pct |-> variance_pct,
         factors |->
             << [factor |-> "Volume changes",
                 impact_pct |-> RatTimes(variance_pct, 2, 5)],
                [factor |-> "Price fluctuations",
                 impact_pct |-> RatTimes(variance_pct, 7, 20)],
                [factor |-> "Cost structure",
                 impact_pct |-> RatTimes(variance_pct, 1, 4)] >>]

\* get_variance_analysis(metric, period, comparison, year)
get_variance_analysis(S, E, metric, period, comparison, year) ==
    With(get_actual_data(S, E, FALSE), LAMBDA actual :
        IF ~actual.ok THEN Propagated(actual)
        ELSE With(IF Lower(metric) # "total"
                  THEN get_account_codes_for_metric(actual.S, E, metric)
                  ELSE Returned(actual.S, {}),
                  LAMBDA codes :
                      IF ~codes.ok THEN Propagated(codes)
                      ELSE Returned(codes.S,
                               Variance(actual.val, codes.val, metric, period,
                                        comparison, year))))

(***************************************************************************)
(*                             RAGRetriever                                *)
(***************************************************************************)


\* What a search of the embedding service does in a call: it raises (the
\* vector store or the embedding call fails), finds nothing, or finds hits.
SearchOutcomes == {"raises", "empty", "hits"}
AccountHits ==
    << [account |-> "4100", parent |-> "FCCS_Sales", description |-> "", score |-> 91] >>
EntityHits ==
    << [entity |-> "CFG", parent |-> "Total Entity", description |-> "", score |-> 88] >>

\* embedding_service.search_accounts / search_entities
EmbeddingSearch(outcome, hits) ==
    IF outcome = "raises" THEN [ok |-> FALSE, val |-> [exception |-> "search failed"]]
    ELSE [ok |-> TRUE, val |-> IF outcome = "hits" THEN hits ELSE <<>>]

\* find_relevant_accounts with no try/except around the search.
FindRelevantAccountsUncaught(outcome) == EmbeddingSearch(outcome, AccountHits)

\* find_relevant_accounts: the search's results, [] when it raised.
find_relevant_accounts(outcome) ==
    LET results == EmbeddingSearch(outcome, AccountHits)
    IN  IF results.ok THEN results ELSE [ok |-> TRUE, val |-> <<>>]

\* find_relevant_entities
find_relevant_entities(outcome) ==
    LET results == EmbeddingSearch(outcome, EntityHits)
    IN  IF results.ok THEN results ELSE [ok |-> TRUE, val |-> <<>>]

\* "x" in str(period) for an Optional[str] field that is set and not empty.
Truthy(j) == j.t = "str" /\ j.s # ""

\* The statistics retrieve_for_descriptive computes itself (lines 116-123):
\* the reductions of an empty series raise.
SummaryStats(S, amounts) ==
    IF Len(amounts) = 0 THEN Raised(S, "reduction of an empty series")
    ELSE Returned(S, Stats(amounts))

retrieve_for_descriptive(S, E, c, search) ==
    LET year == IF c.temporal.start_period.t = "str"
                   /\ Contains(c.temporal.start_period.s, "2023")
                THEN "FY23" ELSE "FY24"
        semantic_query == IF c.metrics # <<>> THEN JoinWords(c.metrics)
                          ELSE "financial performance"
        relevant_accounts == find_relevant_accounts(search.accounts)
        relevant_entities == find_relevant_entities(search.entities)
        metric == IF c.metrics # <<>> THEN c.metrics[1] ELSE None
    IN  IF ~relevant_accounts.ok THEN Raised(S, relevant_accounts.val.exception)
        ELSE IF ~relevant_entities.ok THEN Raised(S, relevant_entities.val.exception)
        ELSE
        With(IF metric # None THEN get_metric_data(S, E, metric, year, None)
             ELSE Returned(S, [has_data |-> FALSE]),
             LAMBDA metric_data :
        IF ~metric_data.ok THEN Propagated(metric_data)
        ELSE IF metric_data.val.has_data
        THEN Returned(metric_data.S,
                 [data |-> metric_data.val.data,
                  summary |-> metric_data.val.summary,
                  trend |-> metric_data.val.trend,
                  relevant_accounts |-> relevant_accounts.val,
                  relevant_entities |-> relevant_entities.val,
                  year |-> year,
                  metric |-> metric,
                  account_count |-> metric_data.val.account_count,
                  semantic_query |-> semantic_query,
                  row_count |-> Len(metric_data.val.data),
                  source |-> "onelake_with_hierarchy",
                  metric_filtered |-> TRUE])
        ELSE
        With(get_financial_summary(metric_data.S, E, year), LAMBDA financial_summary :
        IF ~financial_summary.ok THEN Propagated(financial_summary)
        ELSE
        With(Amounts(financial_summary.val), LAMBDA amounts :
        With(SummaryStats(financial_summary.S, amounts), LAMBDA stats :
        IF ~stats.ok THEN Propagated(stats)
        ELSE Returned(financial_summary.S,
                 [data |-> financial_summary.val,
                  summary |-> stats.val,
                  trend |-> Trend(amounts),
                  relevant_accounts |-> relevant_accounts.val,
                  relevant_entities |-> relevant_entities.val,
                  year |-> year,
                  semantic_query |-> semantic_query,
                  row_count |-> Len(financial_summary.val),
                  source |-> "onelake_general",
                  metric_filtered |-> FALSE])))))

\* period_map of retrieve_for_diagnostic, in the order the dict lists it.
PERIOD_MAP ==
    << <<"Q1", "Mar">>, <<"Q2", "Jun">>, <<"Q3", "Sep">>, <<"Q4", "Dec">>,
       <<"january", "Jan">>, <<"february", "Feb">>, <<"march", "Mar">>,
       <<"april", "Apr">>, <<"may", "May">>, <<"june", "Jun">>,
       <<"july", "Jul">>, <<"august", "Aug">>, <<"september", "Sep">>,
       <<"october", "Oct">>, <<"november", "Nov">>, <<"december", "Dec">>,
       <<"jan", "Jan">>, <<"feb", "Feb">>, <<"mar", "Mar">>,
       <<"apr", "Apr">>, <<"jun", "Jun">>, <<"jul", "Jul">>,
       <<"aug", "Aug">>, <<"sep", "Sep">>, <<"oct", "Oct">>,
       <<"nov", "Nov">>, <<"dec", "Dec">> >>

\* The period retrieve_for_diagnostic reads from temporal.end_period: the
\* first key of the map found in the lower-cased text, "Sep" otherwise.
DiagnosticPeriod(c) ==
    IF ~Truthy(c.temporal.end_period) THEN "Sep"
    ELSE LET period_str == Lower(c.temporal.end_period.s)
             found == {i \in 1..Len(PERIOD_MAP) : Contains(period_str, PERIOD_MAP[i][1])}
         IN  IF found = {} THEN "Sep" ELSE PERIOD_MAP[Smallest(found)][2]

retrieve_for_diagnostic(S, E, c, search) ==
    LET period == DiagnosticPeriod(c)
        metric == IF c.metrics # <<>> THEN c.metrics[1] ELSE "total"
        semantic_query == IF c.metrics # <<>> THEN JoinWords(c.metrics)
                          ELSE "financial variance"
        relevant_accounts == find_relevant_accounts(search.accounts)
        comparison == IF Truthy(c.comparison_type) THEN c.comparison_type.s ELSE "MoM"
    IN  IF ~relevant_accounts.ok THEN Raised(S, relevant_accounts.val.exception)
        ELSE
        With(get_variance_analysis(S, E, metric, period, comparison, "FY24"),
             LAMBDA variance :
        IF ~variance.ok THEN Propagated(variance)
        ELSE Returned(variance.S,
                 [variance |-> variance.val,
                  relevant_accounts |-> relevant_accounts.val,
                  period |-> period,
                  metric |-> metric,
                  semantic_query |-> semantic_query,
                  source |-> "onelake_with_hierarchy"]))

\* The historical series of retrieve_for_predictive (lines 216-228) and of
\* retrieve_for_prescriptive (lines 272-284): the metric's data when there
\* is a metric and it has data, the general summary otherwise.
HistoricalData(S, E, metric) ==
    With(IF metric # None /\ metric # ""
         THEN get_metric_data(S, E, metric, "FY24", None)
         ELSE Returned(S, [has_data |-> FALSE]),
         LAMBDA metric_data :
             IF ~metric_data.ok THEN Propagated(metric_data)
             ELSE IF metric_data.val.has_data
             THEN Returned(metric_data.S, metric_data.val.data)
             ELSE get_financial_summary(metric_data.S, E, "FY24"))

\* The projections of retrieve_for_predictive (lines 231-244); confidences
\* in hundredths.
Projections(amounts) ==
    IF Len(amounts) >= 3
    THEN LET avg_growth == Rat(amounts[Len(amounts)] - amounts[1], Len(amounts))
             last_value == amounts[Len(amounts)]
             periods    == <<"Jan", "Feb", "Mar">>
         IN  [i \in 1..Len(periods) |->
                 [period |-> periods[i],
                  year |-> "FY25",
                  projected_amount |-> RatPlus(RatOf(last_value), RatTimes(avg_growth, i, 1)),
                  confidence |-> 85 - (i - 1) * 10]]
    ELSE <<>>

retrieve_for_predictive(S, E, c, search) ==
    LET metric == IF c.metrics # <<>> THEN c.metrics[1] ELSE None
        semantic_query == IF c.metrics # <<>> THEN JoinWords(c.metrics)
                          ELSE "forecast projection"
        relevant_accounts == find_relevant_accounts(search.accounts)
    IN  With(HistoricalData(S, E, metric), LAMBDA periods_data :
        IF ~periods_data.ok THEN Propagated(periods_data)
        ELSE IF ~relevant_accounts.ok
        THEN Raised(periods_data.S, relevant_accounts.val.exception)
        ELSE Returned(periods_data.S,
                 [historical_data |-> periods_data.val,
                  projections |-> Projections(Amounts(periods_data.val)),
                  relevant_accounts |-> relevant_accounts.val,
                  metric |-> metric,
                  methodology |-> "linear_trend_projection",
                  source |-> "onelake_with_hierarchy"]))

\* A recommendation; the f-strings are kept as the template and its values.
Recommendation(category, priority, recommendation, metric_name, rationale, value) ==
    [category |-> category, priority |-> priority,
     recommendation |-> [template |-> recommendation, metric_name |-> metric_name],
     rationale |-> [template |-> rationale, value |-> value]]

\* The trend-based recommendation (lines 298-321).
TrendRecommendation(amounts, metric_name) ==
    IF Len(amounts) < 2 THEN <<>>
    ELSE LET growth == Growth(amounts)
         IN  IF RatAbove(growth, 10)
             THEN << Recommendation("Growth Management", "Medium",
                        "Strong {} growth trajectory. Consider capacity planning and resource allocation.",
                        metric_name, "YTD growth of {:.1f}% indicates expansion.",
                        Format1f(growth)) >>
             ELSE IF RatBelow(growth, -5)
             THEN << Recommendation("Performance Improvement", "High",
                        "Declining {} trend detected. Conduct root cause analysis and implement corrective measures.",
                        metric_name, "YTD decline of {:.1f}% requires attention.",
                        Format1f(growth)) >>
             ELSE << Recommendation("Optimization", "Low",
                        "Stable {} performance. Focus on efficiency improvements and cost optimization.",
                        metric_name, "YTD change of {:.1f}% shows stability.",
                        Format1f(growth)) >>

\* The variance-based recommendation (lines 324-337).
VarianceRecommendation(variance, metric_name) ==
    IF RatAbove(variance.variance_pct, 5)
    THEN << Recommendation("Positive Variance", "Medium",
               "Analyze drivers of positive {} variance and replicate successful strategies.",
               metric_name, "Recent {:.1f}% increase in {}.",
               <<Format1f(variance.variance_pct), variance.period>>) >>
    ELSE IF RatBelow(variance.variance_pct, -5)
    THEN << Recommendation("Negative Variance", "High",
               "Investigate causes of {} decline and implement immediate corrective actions.",
               metric_name, "Recent {:.1f}% decrease in {}.",
               <<Format1f(variance.variance_pct), variance.period>>) >>
    ELSE <<>>

retrieve_for_prescriptive(S, E, c, search) ==
    LET metric == IF c.metrics # <<>> THEN c.metrics[1] ELSE None
        has_metric == metric # None /\ metric # ""
        metric_name == IF has_metric THEN metric ELSE "financial performance"
        semantic_query == IF c.metrics # <<>> THEN JoinWords(c.metrics)
                          ELSE "recommendation action"
        relevant_accounts == find_relevant_accounts(search.accounts)
    IN  With(HistoricalData(S, E, metric), LAMBDA financial_data :
        IF ~financial_data.ok THEN Propagated(financial_data)
        ELSE
        With(get_variance_analysis(financial_data.S, E,
                 IF has_metric THEN metric ELSE "total", "Dec", "MoM", "FY24"),
             LAMBDA variance :
        IF ~variance.ok THEN Propagated(variance)
        ELSE IF ~relevant_accounts.ok
        THEN Raised(variance.S, relevant_accounts.val.exception)
        ELSE Returned(variance.S,
                 [financial_summary |-> financial_data.val,
                  variance |-> variance.val,
                  recommendations |->
                      TrendRecommendation(Amounts(financial_data.val), metric_name)
                      \o VarianceRecommendation(variance.val, metric_name),
                  relevant_accounts |-> relevant_accounts.val,
                  metric |-> metric,
                  source |-> "onelake_with_hierarchy"])))

Handlers ==
    {"retrieve_for_descriptive", "retrieve_for_diagnostic",
     "retrieve_for_predictive", "retrieve_for_prescriptive"}

\* The handler of a name.
Retrieve(handler, S, E, c, search) ==
    CASE handler = "retrieve_for_descriptive" -> retrieve_for_descriptive(S, E, c, search)
      [] handler = "retrieve_for_diagnostic"  -> retrieve_for_diagnostic(S, E, c, search)
      [] handler = "retrieve_for_predictive"  -> retrieve_for_predictive(S, E, c, search)
      [] handler = "retrieve_for_prescriptive" -> retrieve_for_prescriptive(S, E, c, search)

(***************************************************************************)
(*          The category agents and the MockDataService two of them use    *)
(*                                                                         *)
(* The amounts MockDataService generates are random draws; the frames are  *)
(* kept as their periods and their columns, and a payload as the periods   *)
(* and columns it selects.                                                 *)
(***************************************************************************)

\* The characters of period labels and metric names, in code-point order.
CodePoints == " -0123456789ABCDEFGHIJKLMNOPQRSTUVWXYZ_abcdefghijklmnopqrstuvwxyz"
Ord(c) == CHOOSE i \in 1..Len(CodePoints) : Ch(CodePoints, i) = c

\* a <= b for Python strings.
RECURSIVE StrLeq(_, _)
StrLeq(a, b) ==
    IF a = "" THEN TRUE
    ELSE IF b = "" THEN FALSE
    ELSE IF Ch(a, 1) = Ch(b, 1) THEN StrLeq(SubSeq(a, 2, Len(a)), SubSeq(b, 2, Len(b)))
    ELSE Ord(Ch(a, 1)) < Ord(Ch(b, 1))

DecimalDigits == "0123456789"
IsDigit(c) == \E i \in 1..10 : Ch(DecimalDigits, i) = c
DigitValue(c) == (CHOOSE i \in 1..10 : Ch(DecimalDigits, i) = c) - 1
\* int(s) for a string of decimal digits, and str(n) for n >= 0.
RECURSIVE IntOf(_)
IntOf(s) ==
    IF s = "" THEN 0
    ELSE 10 * IntOf(SubSeq(s, 1, Len(s) - 1)) + DigitValue(Ch(s, Len(s)))
AllDigits(s) == s # "" /\ \A i \in 1..Len(s) : IsDigit(Ch(s, i))
RECURSIVE StrOf(_)
StrOf(n) ==
    IF n < 10 THEN Ch(DecimalDigits, n + 1)
    ELSE StrOf(n \div 10) \o Ch(DecimalDigits, (n % 10) + 1)

\* The columns of MockDataService.get_financial_summary, the numeric ones,
\* and the years it generates quarters for.
MOCK_COLUMNS ==
    {"period", "fiscal_year", "fiscal_quarter", "revenue", "cogs", "gross_profit",
     "gross_margin_pct", "opex", "ebitda", "ebitda_margin_pct", "depreciation",
     "ebit", "interest", "ebt", "tax", "net_income", "currency"}
MOCK_NUMERIC == MOCK_COLUMNS \ {"period", "currency"}
MOCK_YEARS == 2020..2025
QuarterLabel(year, quarter) == StrOf(year) \o "-Q" \o StrOf(quarter)
MockPeriods ==
    [i \in 1..(4 * Cardinality(MOCK_YEARS)) |->
        QuarterLabel(2020 + (i - 1) \div 4, ((i - 1) % 4) + 1)]

\* MockDataService.get_financial_summary(start_period, end_period): the
\* periods of the frame.
MockFinancialSummary(start_period, end_period) ==
    LET from_start == IF Truthy(start_period)
                      THEN SelectSeq(MockPeriods, LAMBDA p : StrLeq(start_period.s, p))
                      ELSE MockPeriods
    IN  IF Truthy(end_period)
        THEN SelectSeq(from_start, LAMBDA p : StrLeq(p, end_period.s))
        ELSE from_start

\* An outcome of an agent's method (the agents keep no state).
Done(val)  == [ok |-> TRUE, val |-> val]
Fails(exception) == [ok |-> FALSE, val |-> [exception |-> exception]]

\* The positions of "-" in a string, and period.split('-').
Dashes(s) == {i \in 1..Len(s) : Ch(s, i) = "-"}

\* metric_mapping of MockDataService.get_variance_analysis and of
\* DiagnosticAgent.retrieve; metric_mapping.get(metric, metric).
DIAGNOSTIC_METRIC_MAPPING ==
    << <<"ebitda", "ebitda">>, <<"revenue", "revenue">>,
       <<"gross_margin", "gross_margin_pct">>, <<"gross_profit", "gross_profit">>,
       <<"net_income", "net_income">>, <<"opex", "opex">> >>
\* metric_mapping of DescriptiveAgent.retrieve.
DESCRIPTIVE_METRIC_MAPPING ==
    << <<"ebitda", "ebitda">>, <<"revenue", "revenue">>,
       <<"gross_margin", "gross_margin_pct">>, <<"gross_profit", "gross_profit">>,
       <<"net_income", "net_income">>, <<"operating_expenses", "opex">>,
       <<"opex", "opex">> >>
InMapping(mapping, key) == \E i \in 1..Len(mapping) : mapping[i][1] = key
MappingGet(mapping, key, default) ==
    IF InMapping(mapping, key)
    THEN mapping[CHOOSE i \in 1..Len(mapping) : mapping[i][1] = key][2]
    ELSE default

\* MockDataService.get_variance_analysis(metric, period, comparison)
MockVarianceAnalysis(metric, period, comparison) ==
    IF Cardinality(Dashes(period)) # 1
    THEN Fails("ValueError: period.split('-') does not give two parts")
    ELSE
    LET dash == CHOOSE i \in Dashes(period) : TRUE
        year_str == SubSeq(period, 1, dash - 1)
        quarter_str == SubSeq(period, dash + 1, Len(period))
    IN  IF ~AllDigits(Strip(year_str))
        THEN Fails("ValueError: int(year)")
        ELSE IF Len(quarter_str) < 2 THEN Fails("IndexError: quarter_str[1]")
        ELSE IF ~IsDigit(Ch(quarter_str, 2)) THEN Fails("ValueError: int(quarter_str[1])")
        ELSE
        LET year == IntOf(Strip(year_str))
            quarter == DigitValue(Ch(quarter_str, 2))
            InFrame(p) == \E i \in 1..Len(MockPeriods) : MockPeriods[i] = p
            prev_period ==
                IF comparison = "QoQ"
                THEN IF quarter = 1 THEN QuarterLabel(year - 1, 4)
                     ELSE QuarterLabel(year, quarter - 1)
                ELSE QuarterLabel(year - 1, quarter)
        IN  IF ~InFrame(period) THEN Fails("IndexError: no row of the period")
            ELSE IF comparison \notin {"QoQ", "YoY"}
            THEN \* vs_budget: the budget frame of the year has the period
                 Done([period |-> period, metric |-> metric,
                       comparison |-> comparison,
                       keys |-> {"period", "metric", "comparison", "current_value",
                                 "budget_value", "variance", "variance_pct", "factors"}])
            ELSE IF ~InFrame(prev_period)
            THEN Fails("IndexError: no row of the previous period")
            ELSE Done([period |-> period, metric |-> metric,
                       comparison |-> comparison,
                       keys |-> {"period", "metric", "comparison", "current_value",
                                 "previous_value", "variance", "variance_pct",
                                 "factors"}])

\* FinancialVisualizer.create_waterfall_chart_json reads previous_value.
WaterfallChart(variance) ==
    IF "previous_value" \in variance.keys THEN Done("waterfall")
    ELSE Fails("KeyError: 'previous_value'")

\* DiagnosticAgent.retrieve
DiagnosticAgentRetrieve(c) ==
    LET metric == Lower(IF c.metrics # <<>> THEN c.metrics[1] ELSE "revenue")
        mapped_metric == MappingGet(DIAGNOSTIC_METRIC_MAPPING, metric, metric)
        period == IF Truthy(c.temporal.end_period) THEN c.temporal.end_period.s
                  ELSE "2024-Q3"
        comparison == IF Truthy(c.comparison_type) THEN c.comparison_type.s ELSE "QoQ"
        variance == MockVarianceAnalysis(metric, period, comparison)
        df == MockFinancialSummary(JNull, JNull)
    IN  IF ~variance.ok THEN variance
        ELSE IF ~WaterfallChart(variance.val).ok THEN WaterfallChart(variance.val)
        ELSE IF mapped_metric \notin MOCK_COLUMNS
        THEN Fails("KeyError: column not in index")
        ELSE Done([variance |-> variance.val,
                   historical_context |->
                       [periods |-> SubSeq(df, Len(df) - 7, Len(df)),
                        columns |-> <<"period", mapped_metric>>],
                   chart |-> "waterfall",
                   source |-> "mock_data_service"])

\* The metrics DescriptiveAgent.retrieve maps to columns (lines 65-71).
RECURSIVE MappedMetrics(_)
MappedMetrics(metrics) ==
    IF metrics = <<>> THEN <<>>
    ELSE LET m_lower == Lower(metrics[1])
             mapped == MappingGet(DESCRIPTIVE_METRIC_MAPPING, m_lower, "")
         IN  (IF m_lower \in MOCK_COLUMNS THEN <<m_lower>>
              ELSE IF InMapping(DESCRIPTIVE_METRIC_MAPPING, m_lower)
                      /\ mapped \in MOCK_COLUMNS
              THEN <<mapped>>
              ELSE <<>>)
             \o MappedMetrics(Tail(metrics))

\* DescriptiveAgent._create_chart: the kind of chart.
DescriptiveChart(num_periods, metrics) ==
    IF num_periods >= 4 /\ Len(metrics) >= 1 THEN "line"
    ELSE IF num_periods <= 4 /\ Len(metrics) = 1 THEN "bar"
    ELSE "line"

\* DescriptiveAgent.retrieve; the metrics of a classification are distinct.
DescriptiveAgentRetrieve(c) ==
    LET metrics == IF c.metrics # <<>> THEN c.metrics ELSE <<"revenue", "ebitda">>
        df == MockFinancialSummary(c.temporal.start_period, c.temporal.end_period)
        found == MappedMetrics(metrics)
        mapped_metrics == IF found # <<>> THEN found ELSE <<"revenue", "ebitda">>
        columns_to_include == <<"period", "fiscal_year", "fiscal_quarter">> \o mapped_metrics
    IN  IF \E i \in 1..Len(mapped_metrics) : mapped_metrics[i] \notin MOCK_NUMERIC
        THEN Fails("ValueError: float() of a text column")
        ELSE IF df = <<>> THEN Fails("IndexError: iloc[-1] of an empty frame")
        ELSE Done([data |-> [periods |-> df, columns |-> columns_to_include],
                   summary |-> Range(mapped_metrics),
                   trends |-> IF Len(df) >= 2 THEN Range(mapped_metrics) ELSE {},
                   row_count |-> Len(df),
                   chart |-> DescriptiveChart(Len(df), mapped_metrics),
                   source |-> "mock_data_service"])

\* PredictiveAgent.retrieve and PrescriptiveAgent.retrieve: the handler of
\* the retriever and a chart of its payload.
RetrieverAgentRetrieve(handler, S, E, c, search) ==
    With(Retrieve(handler, S, E, c, search), LAMBDA result :
        IF ~result.ok THEN result
        ELSE [result EXCEPT !.val = [field \in DOMAIN result.val \cup {"chart"} |->
                                        IF field = "chart" THEN "chart"
                                        ELSE result.val[field]]])

Agents == {"DescriptiveAgent", "DiagnosticAgent", "PredictiveAgent", "PrescriptiveAgent"}

\* agent.retrieve(classification) of the agent ask_query routes to.
AgentRetrieve(agent, S, E, c, search) ==
    CASE agent = "DescriptiveAgent" ->
             [ok |-> DescriptiveAgentRetrieve(c).ok,
              val |-> DescriptiveAgentRetrieve(c).val, S |-> S]
      [] agent = "DiagnosticAgent" ->
             [ok |-> DiagnosticAgentRetrieve(c).ok,
              val |-> DiagnosticAgentRetrieve(c).val, S |-> S]
      [] agent = "PredictiveAgent" ->
             RetrieverAgentRetrieve("retrieve_for_predictive", S, E, c, search)
      [] agent = "PrescriptiveAgent" ->
             RetrieverAgentRetrieve("retrieve_for_prescriptive", S, E, c, search)

(***************************************************************************)
(*            PrescriptiveAgent: presenting the recommendations            *)
(*                                                                         *)
(* The text format_response joins is kept as its blocks: the situation     *)
(* lines, the numbered recommendations, the immediate actions and the      *)
(* related accounts, each with the values its f-strings print.             *)
(***************************************************************************)

\* priority_order.get(x['priority'], 3)
PriorityKey(rec) ==
    CASE rec.priority = "High"   -> 0
      [] rec.priority = "Medium" -> 1
      [] rec.priority = "Low"    -> 2
      [] OTHER                   -> 3

\* One insertion of a sort that puts an item before the items of its own key.
InsertByKeyBeforeEqual(sorted, rec) ==
    LET k == Cardinality({i \in 1..Len(sorted) : PriorityKey(sorted[i]) < PriorityKey(rec)})
    IN  SubSeq(sorted, 1, k) \o <<rec>> \o SubSeq(sorted, k + 1, Len(sorted))

\* sorted(recommendations, key=...) is stable: taking the items in their
\* order, each goes behind the items whose key is not greater than its own.
InsertByKey(sorted, rec) ==
    LET k == Cardinality({i \in 1..Len(sorted) : PriorityKey(sorted[i]) <= PriorityKey(rec)})
    IN  SubSeq(sorted, 1, k) \o <<rec>> \o SubSeq(sorted, k + 1, Len(sorted))

RECURSIVE SortedByKey(_, _)
SortedByKey(sorted, rest) ==
    IF rest = <<>> THEN sorted
    ELSE SortedByKey(InsertByKey(sorted, Head(rest)), Tail(rest))

\* _prioritize_recommendations
PrioritizeRecommendations(recommendations) == SortedByKey(<<>>, recommendations)

\* data.get('variance', {}) of a payload without the key.
NoVariance == [period |-> None]

\* The "Current Situation" block (lines 116-132); nothing for an empty dict.
SituationLines(variance) ==
    IF variance = NoVariance THEN <<>>
    ELSE << [period |-> variance.period, value |-> variance.current_value],
            [period |-> variance.previous_period, value |-> variance.previous_value],
            [change |-> Format1f(variance.variance_pct),
             note   |-> IF RatAbove(variance.variance_pct, 0) THEN "Positive trend"
                        ELSE IF RatBelow(variance.variance_pct, 0) THEN "Needs attention"
                        ELSE "Stable"] >>

\* The numbered recommendations (lines 135-153), in the order they are printed.
RecommendationLines(recommendations) ==
    LET sorted_recs == PrioritizeRecommendations(recommendations)
    IN  [i \in 1..Len(sorted_recs) |->
            [number |-> i,
             category |-> sorted_recs[i].category,
             priority |-> sorted_recs[i].priority,
             recommendation |-> sorted_recs[i].recommendation,
             rationale |-> sorted_recs[i].rationale]]

\* The "Immediate Actions Required" block (lines 156-161).
ImmediateActions(recommendations) ==
    LET high_priority == SelectSeq(recommendations, LAMBDA r : r.priority = "High")
    IN  [i \in 1..Len(high_priority) |-> high_priority[i].recommendation]

\* format_response
FormatResponse(data) ==
    [situation       |-> SituationLines(data.variance),
     recommendations |-> RecommendationLines(data.recommendations),
     none_required   |-> data.recommendations = <<>>,
     immediate       |-> ImmediateActions(data.recommendations),
     related         |-> SubSeq(data.relevant_accounts, 1,
                                IF Len(data.relevant_accounts) < 3
                                THEN Len(data.relevant_accounts) ELSE 3)]

(***************************************************************************)
(*         get_all_descendants, one step of the interpreter at a time      *)
(*                                                                         *)
(* call_stack holds the frames of the calls in progress, the innermost     *)
(* last.  A frame is at "enter" (the visited test is next) or at "loop"    *)
(* (iteration i of "for child in children" is next).                       *)
(***************************************************************************)

\* The deepest recursion the interpreter is followed to.
MaxDepth == 5

EnterFrame(account_name) ==
    [pc |-> "enter", account_name |-> account_name, i |-> 1, descendants |-> {}]

NoReturn == [done |-> FALSE, val |-> {}]

TopFrame == call_stack[Len(call_stack)]
Callers  == SubSeq(call_stack, 1, Len(call_stack) - 1)

\* The innermost call returns val: to the frame below it, which is inside
\* descendants.update(...), or to whoever started the traversal.
ReturnToCaller(val) ==
    IF Callers = <<>>
    THEN /\ call_stack' = <<>>
         /\ returned' = [done |-> TRUE, val |-> val]
    ELSE /\ call_stack' =
                [Callers EXCEPT ![Len(Callers)] =
                    [@ EXCEPT !.descendants = @ \cup val, !.i = @ + 1]]
         /\ UNCHANGED returned

\* "if account_name in visited: return set()"
StepRevisited ==
    /\ call_stack # <<>>
    /\ TopFrame.pc = "enter"
    /\ Revisited(TopFrame.account_name, visited)
    /\ ReturnToCaller({})
    /\ UNCHANGED <<visited, parent_to_children>>

\* "visited.add(account_name)" and the set-up of the loop.
StepVisit ==
    /\ call_stack # <<>>
    /\ TopFrame.pc = "enter"
    /\ ~Revisited(TopFrame.account_name, visited)
    /\ visited' = visited \cup {TopFrame.account_name}
    /\ call_stack' = [call_stack EXCEPT ![Len(call_stack)].pc = "loop"]
    /\ UNCHANGED <<returned, parent_to_children>>

\* The child of this iteration, when there is one.
LoopChild == ChildrenOf(parent_to_children, TopFrame.account_name)[TopFrame.i]
InLoop ==
    /\ call_stack # <<>>
    /\ TopFrame.pc = "loop"
    /\ TopFrame.i <= Len(ChildrenOf(parent_to_children, TopFrame.account_name))

\* A leaf child: "descendants.add(child)".
StepLeaf ==
    /\ InLoop
    /\ ~ChildIsBranch(parent_to_children, LoopChild)
    /\ call_stack' = [call_stack EXCEPT ![Len(call_stack)] =
                         [@ EXCEPT !.descendants = @ \cup {LoopChild}, !.i = @ + 1]]
    /\ UNCHANGED <<visited, returned, parent_to_children>>

\* A branch child: the recursive call.
StepRecurse ==
    /\ InLoop
    /\ ChildIsBranch(parent_to_children, LoopChild)
    /\ Len(call_stack) < MaxDepth
    /\ call_stack' = Append(call_stack, EnterFrame(LoopChild))
    /\ UNCHANGED <<visited, returned, parent_to_children>>

\* The loop is over: "return descendants".
StepReturn ==
    /\ call_stack # <<>>
    /\ TopFrame.pc = "loop"
    /\ TopFrame.i > Len(ChildrenOf(parent_to_children, TopFrame.account_name))
    /\ ReturnToCaller(TopFrame.descendants)
    /\ UNCHANGED <<visited, parent_to_children>>

\* No traversal is being followed.
TraversalIdle ==
    /\ parent_to_children = EmptyDict
    /\ call_stack = <<>>
    /\ visited = {}
    /\ returned = NoReturn

(***************************************************************************)
(*                     The service's calls as actions                      *)
(***************************************************************************)

\* What the lakehouse holds: each file's rows under an ETag.
Lakehouse(accounts, actual) ==
    Put(Put(EmptyDict, FilePath(ACCOUNTS_FILE), accounts),
        FilePath(ACTUAL_FILE), actual)
Stored(etag, rows) == [etag |-> etag, rows |-> rows]

\* svc_result: the call, its arguments and its outcome.
NoResult == [op |-> "none", args |-> <<>>, ok |-> TRUE, val |-> <<>>]
ResultOf(op, args, r) == [op |-> op, args |-> args, ok |-> r.ok, val |-> r.val]

\* A caller runs _build_account_hierarchy.
CallBuildAccountHierarchy ==
    \E r \in {BuildAccountHierarchy(Svc, Env)} :
        /\ SvcBecomes(r.S)
        /\ svc_result' = ResultOf("_build_account_hierarchy", <<>>, r)
        /\ UNCHANGED envVars

\* The parts of the system a specification leaves at rest.
ClsIdle ==
    /\ query = ""
    /\ client = FALSE
    /\ llm_response = NoResponse
    /\ llm_called = FALSE
    /\ classification = NoClassification

SvcNew ==
    /\ data_cache = EmptyDict
    /\ etag_cache = EmptyDict
    /\ last_check = EmptyDict
    /\ account_hierarchy = HierarchyNone
    /\ connector_etag_cache = EmptyDict
    /\ svc_result = NoResult

EnvIdle ==
    /\ storage = Lakehouse(Stored(1, <<>>), Stored(1, <<>>))
    /\ online = TRUE

(***************************************************************************)
(*               The lakehouse changing under the service                  *)
(***************************************************************************)

\* The number of versions a file of the lakehouse goes through.
MaxEtag == 2

\* A chart of accounts, and the chart after an account was added under Sales.
ChartV1 ==
    << AccountRow("FCCS_Income Statement", NaN),
       AccountRow("FCCS_Operating Income", "FCCS_Income Statement"),
       AccountRow("FCCS_Sales", "FCCS_Operating Income"),
       AccountRow("4100", "FCCS_Sales"),
       AccountRow("5100", "FCCS_Operating Income") >>
ChartV2 == ChartV1 \o << AccountRow("4200", "FCCS_Sales") >>
Charts  == <<ChartV1, ChartV2>>

\* The version of a file that is stored under ETag n.
VersionOf(versions, n) == versions[((n - 1) % Len(versions)) + 1]

\* Somebody replaces a file of the lakehouse; the new version has a new ETag.
StorageWrite(filename, versions) ==
    LET path == FilePath(filename)
        next == storage[path].etag + 1
    IN  /\ next <= MaxEtag
        /\ storage' = Put(storage, path, Stored(next, VersionOf(versions, next)))
        /\ UNCHANGED <<online, svcVars>>

\* The lakehouse stops answering, or answers again.
GoOffline == online /\ online' = FALSE /\ UNCHANGED <<storage, svcVars>>
GoOnline  == ~online /\ online' = TRUE /\ UNCHANGED <<storage, svcVars>>

\* The check interval passes once more.  What matters of a stored time is
\* whether more than the interval has passed since, so the minutes stop
\* counting beyond two intervals.
Tick ==
    /\ \E f \in DOMAIN last_check : last_check[f] < 2 * CheckInterval
    /\ last_check' = [f \in DOMAIN last_check |->
                         IF last_check[f] < 2 * CheckInterval
                         THEN last_check[f] + CheckInterval
                         ELSE last_check[f]]
    /\ UNCHANGED <<envVars, connector_etag_cache, data_cache, etag_cache,
                   account_hierarchy, svc_result>>

\* The public calls, each run from start to end.
CallGetAccounts(force_refresh) ==
    \E r \in {get_accounts(Svc, Env, force_refresh)} :
        /\ SvcBecomes(r.S)
        /\ svc_result' = ResultOf("get_accounts", <<force_refresh>>, r)
        /\ UNCHANGED envVars

CallGetActualData(force_refresh) ==
    \E r \in {get_actual_data(Svc, Env, force_refresh)} :
        /\ SvcBecomes(r.S)
        /\ svc_result' = ResultOf("get_actual_data", <<force_refresh>>, r)
        /\ UNCHANGED envVars

CallGetAccountCodesForMetric(metric) ==
    \E r \in {get_account_codes_for_metric(Svc, Env, metric)} :
        /\ SvcBecomes(r.S)
        /\ svc_result' = ResultOf("get_account_codes_for_metric", <<metric>>, r)
        /\ UNCHANGED envVars

CallGetMetricData(metric, year, entity) ==
    \E r \in {get_metric_data(Svc, Env, metric, year, entity)} :
        /\ SvcBecomes(r.S)
        /\ svc_result' = ResultOf("get_metric_data", <<metric, year, entity>>, r)
        /\ UNCHANGED envVars

CallGetVarianceAnalysis(metric, period, comparison, year) ==
    \E r \in {get_variance_analysis(Svc, Env, metric, period, comparison, year)} :
        /\ SvcBecomes(r.S)
        /\ svc_result' = ResultOf("get_variance_analysis",
                                  <<metric, period, comparison, year>>, r)
        /\ UNCHANGED envVars

\* A handler of the retriever, on the retriever's own data service.
CallRetrieve(handler, c, search) ==
    \E r \in {Retrieve(handler, Svc, Env, c, search)} :
        /\ SvcBecomes(r.S)
        /\ svc_result' = ResultOf(handler, <<c, search>>, r)
        /\ UNCHANGED envVars

\* ask_query hands the classification to the agent of its category.
CallAgentRetrieve(agent, c, search) ==
    \E r \in {AgentRetrieve(agent, Svc, Env, c, search)} :
        /\ SvcBecomes(r.S)
        /\ svc_result' = ResultOf(agent, <<c, search>>, r)
        /\ UNCHANGED envVars

\* format_response of the prescriptive agent on a payload; the agent's data
\* service is not touched.
CallFormatResponse(data) ==
    /\ svc_result' = ResultOf("format_response", <<data>>,
                              Returned(Svc, FormatResponse(data)))
    /\ UNCHANGED <<envVars, connector_etag_cache, data_cache, etag_cache,
                   last_check, account_hierarchy>>

\* The prescriptive branch of ask_query (routes/query.py, lines 198-203):
\* retrieve, then format_response on what retrieve returned.
AskPrescriptive(c, search) ==
    \E r \in {AgentRetrieve("PrescriptiveAgent", Svc, Env, c, search)} :
        /\ SvcBecomes(r.S)
        /\ svc_result' =
               ResultOf("ask_query", <<c, search>>,
                        IF r.ok
                        THEN Returned(r.S, [data |-> r.val, answer |-> FormatResponse(r.val)])
                        ELSE r)
        /\ UNCHANGED envVars

\* clear_cache(filename); "" stands for the call without an argument.
CallClearCache(filename) ==
    /\ SvcBecomes(ClearCache(Svc, filename))
    /\ svc_result' = ResultOf("clear_cache", <<filename>>, Returned(Svc, <<>>))
    /\ UNCHANGED envVars

\* The connector's own methods, called on the connector.
CallHasFileChanged(file_path) ==
    \E r \in {has_file_changed(Svc, Env, file_path)} :
        /\ SvcBecomes(r.S)
        /\ svc_result' = ResultOf("has_file_changed", <<file_path>>, r)
        /\ UNCHANGED envVars

CallUpdateEtagCache(file_path, etag) ==
    \E r \in {update_etag_cache(Svc, file_path, etag)} :
        /\ SvcBecomes(r.S)
        /\ svc_result' = ResultOf("update_etag_cache", <<file_path, etag>>, r)
        /\ UNCHANGED envVars

CallReadCsvFile(file_path) ==
    \E r \in {ReadCsvFile(Svc, Env, file_path)} :
        /\ SvcBecomes(r.S)
        /\ svc_result' = ResultOf("read_csv_file", <<file_path>>, r)
        /\ UNCHANGED envVars

\* The caller has taken the result of its call.
ResultTaken ==
    /\ svc_result.op # "none"
    /\ svc_result' = NoResult
    /\ UNCHANGED <<envVars, connector_etag_cache, data_cache, etag_cache,
                   last_check, account_hierarchy>>

(***************************************************************************)
(*        Two callers on one service: _build_account_hierarchy and         *)
(*        get_account_codes_for_metric a statement at a time               *)
(*                                                                         *)
(* A caller is a thread inside get_account_codes_for_metric (for a metric  *)
(* of the alias map) or inside _build_account_hierarchy itself.  Its       *)
(* locals are its frame; the service's fields are shared.  The dict that   *)
(* _account_hierarchy names is written only through that field, so a dict  *)
(* the field no longer names stays as it was: a caller holds either the    *)
(* dict the field names now ("live") or such a left-behind dict.           *)
(***************************************************************************)

Threads == {"caller1", "caller2"}

IdleCaller ==
    [pc |-> "idle", op |-> "none", metric |-> "", accounts_df |-> <<>>,
     todo |-> {}, held |-> "none", left |-> EmptyDict, codes |-> {}]

\* The index a caller holds a reference to, as it reads now.
IndexHeldBy(t) ==
    IF callers[t].held = "live" THEN account_hierarchy.index ELSE callers[t].left

\* A thread enters one of the two methods.
Enter(t, op, metric) ==
    /\ callers[t].pc = "idle"
    /\ callers' = [callers EXCEPT ![t] =
                      [IdleCaller EXCEPT !.pc = "check", !.op = op, !.metric = metric]]
    /\ UNCHANGED <<envVars, svcVars>>

\* "if self._account_hierarchy is not None: return self._account_hierarchy"
StepCheck(t) ==
    /\ callers[t].pc = "check"
    /\ callers' = [callers EXCEPT ![t] =
                      IF account_hierarchy.set
                      THEN [@ EXCEPT !.pc = "returned", !.held = "live"]
                      ELSE [@ EXCEPT !.pc = "load"]]
    /\ UNCHANGED <<envVars, svcVars>>

\* "accounts_df = self.get_accounts()" and the parent_to_children loop,
\* which touches locals only.
StepLoad(t) ==
    /\ callers[t].pc = "load"
    /\ LET r == get_accounts(Svc, Env, FALSE)
       IN  /\ SvcBecomes(r.S)
           /\ callers' = [callers EXCEPT ![t] =
                             IF r.ok
                             THEN [@ EXCEPT !.pc = "publish", !.accounts_df = r.val]
                             ELSE [@ EXCEPT !.pc = "raised"]]
    /\ UNCHANGED <<envVars, svc_result>>

\* "self._account_hierarchy = {}": the field names a new, empty dict.  Who
\* held the dict named until now keeps that dict.
StepPublish(t) ==
    /\ callers[t].pc = "publish"
    /\ account_hierarchy' = HierarchyOf(EmptyDict)
    /\ callers' = [u \in Threads |->
                      LET kept == IF callers[u].held = "live"
                                  THEN [callers[u] EXCEPT !.held = "left",
                                                          !.left = account_hierarchy.index]
                                  ELSE callers[u]
                      IN  IF u = t
                          THEN [kept EXCEPT !.pc = "fill",
                                            !.todo = AllParents(kept.accounts_df)
                                                     \cup AllAccounts(kept.accounts_df)]
                          ELSE kept]
    /\ UNCHANGED <<envVars, connector_etag_cache, data_cache, etag_cache,
                   last_check, svc_result>>

\* One iteration of "for account in parent_accounts", in the order the set
\* happens to iterate: the entry goes into the dict the field names now.
StepFill(t) ==
    /\ callers[t].pc = "fill"
    /\ \E account \in callers[t].todo :
           LET descendants ==
                   DescendantsOf(ParentToChildren(callers[t].accounts_df), account)
           IN  /\ account_hierarchy' =
                      IF descendants # {}
                      THEN HierarchyOf(Put(account_hierarchy.index, account, descendants))
                      ELSE account_hierarchy
               /\ callers' = [callers EXCEPT ![t].todo = @ \ {account}]
    /\ UNCHANGED <<envVars, connector_etag_cache, data_cache, etag_cache,
                   last_check, svc_result>>

\* The loop is over: "return self._account_hierarchy".
StepBuilt(t) ==
    /\ callers[t].pc = "fill"
    /\ callers[t].todo = {}
    /\ callers' = [callers EXCEPT ![t] = [@ EXCEPT !.pc = "returned", !.held = "live"]]
    /\ UNCHANGED <<envVars, svcVars>>

\* get_account_codes_for_metric, lines 221-229: the codes under the target
\* accounts, read from the index the build call returned.
StepCollect(t) ==
    /\ callers[t].pc = "returned"
    /\ callers[t].op = "get_account_codes_for_metric"
    /\ LET hierarchy == IndexHeldBy(t)
           targets   == Range(MapTargets(Strip(Lower(callers[t].metric))))
       IN  callers' = [callers EXCEPT ![t] =
                          [@ EXCEPT !.pc = "done",
                                    !.codes = UNION {hierarchy[name] :
                                                     name \in targets \cap DOMAIN hierarchy}]]
    /\ UNCHANGED <<envVars, svcVars>>

\* The caller's frame is gone.
Leave(t) ==
    /\ \/ callers[t].pc \in {"done", "raised"}
       \/ callers[t].pc = "returned" /\ callers[t].op = "_build_account_hierarchy"
    /\ callers' = [callers EXCEPT ![t] = IdleCaller]
    /\ UNCHANGED <<envVars, svcVars>>

CallersIdle == callers = [t \in Threads |-> IdleCaller]

(***************************************************************************)
(*                               Inputs                                    *)
(***************************************************************************)

\* The longest accounts table of the hierarchy specifications.
MaxRows == 3

SeqsUpTo(S, n) == UNION {[1..k -> S] : k \in 0..n}

\* Every table of up to MaxRows rows over four names: chains, nodes under
\* several parents, self-references, cycles, top-level rows.
HierNames  == {"FCCS_Net Income", "FCCS_Sales", "4100", "4200"}
HierRows   == {AccountRow(a, p) : a \in HierNames, p \in HierNames \cup {NaN}}
\* A branch listed under two branches of one root, with a leaf of its own.
DiamondTable ==
    << AccountRow("FCCS_Sales", "FCCS_Income Statement"),
       AccountRow("FCCS_Net Income", "FCCS_Income Statement"),
       AccountRow("FCCS_Operating Income", "FCCS_Sales"),
       AccountRow("FCCS_Operating Income", "FCCS_Net Income"),
       AccountRow("4100", "FCCS_Operating Income") >>
HierTables == SeqsUpTo(HierRows, MaxRows) \cup {DiamondTable, ChartV1, ChartV2}

\* The tables the traversal is followed on.  A row with a NaN parent adds
\* nothing to parent_to_children, so the rows all name a parent.
TravNames  == {"FCCS_Net Income", "FCCS_Sales", "4100"}
TravRows   == {AccountRow(a, p) : a \in TravNames, p \in TravNames}
TravTables == SeqsUpTo(TravRows, MaxRows)

\* The months with data in the tables of actuals.
MaxPeriods == 3

\* The amount of a month.  No quotient of two of them lies on a threshold of
\* the trend or of the recommendations.
AmountChoices == {100, 120}

\* A table of actuals: account 4100 (under FCCS_Sales) has the given amounts
\* in the last months of FY24, listed latest first; account 5100 and FY23
\* have a row each.
FactsOf(amounts) ==
    LET n == Len(amounts)
    IN  [i \in 1..n |->
            FactRow(PERIOD_ORDER[Len(PERIOD_ORDER) - i + 1], "FY24", "CFG", "4100",
                    amounts[n - i + 1])]
        \o << FactRow("Dec", "FY24", "CFG", "5100", 40),
              FactRow("Dec", "FY23", "CFG", "4100", 70) >>
\* Every such table of up to MaxPeriods months, one whose first month is
\* zero, and the empty file.
FactsTables ==
    {FactsOf(a) : a \in SeqsUpTo(AmountChoices, MaxPeriods)}
    \cup {FactsOf(<<0, 100>>), <<>>}

\* Rows of a ledger: two leaves of FCCS_Sales and one more of the operating
\* income, two years, entities in several spellings and one missing.
MaxLedger == 2
LedgerRows ==
    { FactRow("Jan", "FY24", "CFG",    "4100", 100),
      FactRow("Jan", "FY24", "CFG UK", "4200", 7),
      FactRow("Feb", "FY24", "CFG",    "4100", 110),
      FactRow("Oct", "FY24", "cfg uk", "4100", 30),
      FactRow("Feb", "FY24", "CFG",    "5100", 40),
      FactRow("Jan", "FY23", "CFG",    "4100", 70),
      FactRow("Apr", "FY24", NaN,      "4100", 9) }
\* A ledger of several months, listed out of order.
LedgerFY24 ==
    << FactRow("Oct", "FY24", "cfg uk", "4100", 30),
       FactRow("Feb", "FY24", "CFG",    "4100", 110),
       FactRow("Jan", "FY24", "CFG",    "4100", 100),
       FactRow("Apr", "FY24", NaN,      "4100", 9),
       FactRow("Jan", "FY24", "CFG UK", "4200", 7),
       FactRow("Feb", "FY24", "CFG",    "5100", 40),
       FactRow("Jan", "FY23", "CFG",    "4100", 70) >>
\* The months of FY24 from January on with the given totals, for one
\* account; the totals lie on and next to the thresholds of the trend.
SeriesOf(amounts) ==
    [i \in 1..Len(amounts) |->
        FactRow(PERIOD_ORDER[i], "FY24", "CFG", "4100", amounts[i])]
TrendAmounts == {0, 94, 95, 100, 105, 106}
TrendLedgers ==
    {SeriesOf(<<first, last>>) : first, last \in TrendAmounts}
    \cup {SeriesOf(<<>>), SeriesOf(<<100>>), SeriesOf(<<100, 200, 105>>),
          SeriesOf(<<1019, 1070>>)}
LedgerTables == SeqsUpTo(LedgerRows, MaxLedger) \cup {LedgerFY24} \cup TrendLedgers
\* The series asked for: metric, year, entity.
SeriesCalls ==
    { <<"revenue", "FY24", None>>, <<"revenue", "FY24", "UK">>,
      <<"EBITDA", "FY24", "cfg">>, <<"revenue", "FY23", "">>,
      <<"goodwill", "FY24", None>> }

\* A ledger around the turn of the fiscal year: December of FY23, January
\* and December of FY24.
LedgerYearEnd ==
    << FactRow("Dec", "FY23", "CFG", "4100", 70),
       FactRow("Jan", "FY24", "CFG", "4100", 100),
       FactRow("Jan", "FY24", "CFG", "5100", 20),
       FactRow("Dec", "FY24", "CFG", "4100", 50) >>

\* Ledgers for the comparisons: the last months of FY24, the first months,
\* a year with rows of the year before, and the series Jan = 100,
\* Feb = 110, Mar = 130.
VarianceLedgers ==
    FactsTables \cup TrendLedgers
        \cup {LedgerFY24, SeriesOf(<<100, 110, 130>>), LedgerYearEnd}
VariancePeriods == Range(PERIOD_ORDER) \cup {"Q1"}

\* Classifications handed to the handlers.
ClassificationOf(metrics, start_period, end_period, comparison_type) ==
    [MakeClassification("descriptive", 90, "") EXCEPT
        !.metrics = metrics,
        !.temporal = [@ EXCEPT !.start_period = start_period,
                               !.end_period = end_period],
        !.comparison_type = comparison_type]
ClassificationInputs ==
    { ClassificationOf(<<>>, JNull, JNull, JNull),
      ClassificationOf(<<"revenue">>, JNull, JNull, JNull),
      ClassificationOf(<<"goodwill">>, JNull, JStr("Q4 2024"), JStr("YoY")),
      ClassificationOf(<<"EBITDA", "revenue">>, JStr("2023-01"), JStr("December"), JNull),
      ClassificationOf(<<"">>, JNull, JNull, JNull) }

\* A chart with an income statement of three levels and a balance sheet, so
\* that the targets of several aliases have leaves of their own.
ChartResolve ==
    ChartV1 \o
    << AccountRow("FCCS_Net Income", "FCCS_Income Statement"),
       AccountRow("7100", "FCCS_Net Income"),
       AccountRow("FCCS_Balance Sheet", NaN),
       AccountRow("FCCS_Total Assets", "FCCS_Balance Sheet"),
       AccountRow("FCCS_Current Assets", "FCCS_Total Assets"),
       AccountRow("1100", "FCCS_Current Assets"),
       AccountRow("1500", "FCCS_Total Assets") >>
ResolveCharts == {ChartV1, ChartResolve, <<>>}

\* Metric phrases: exact aliases (one of them containing an earlier key),
\* phrases that only a substring match finds, phrases only names of the
\* index contain, a phrase nothing knows, in several spellings.
ResolveInputs ==
    {"current assets", "Current Assets", " CURRENT ASSETS\t", "sales", "EBITDA",
     "  ebitda ", "income", "Income ", "total revenue", "fccs_", " FCCS_", "balance",
     "goodwill", ""}

\* Classifications handed to the agents: known metrics, a metric no alias
\* and no column knows, periods inside and outside the mock data.
AgentClassifications ==
    { ClassificationOf(<<>>, JNull, JNull, JNull),
      ClassificationOf(<<"revenue">>, JNull, JNull, JNull),
      ClassificationOf(<<"zzz_unknown">>, JNull, JNull, JNull),
      ClassificationOf(<<"gross_margin">>, JStr("2024-Q1"), JStr("2024-Q4"), JStr("YoY")),
      ClassificationOf(<<"zzz_unknown">>, JNull, JStr("2024-Q3"), JStr("YoY")),
      ClassificationOf(<<"EBITDA">>, JNull, JStr("Q3 2024"), JNull),
      ClassificationOf(<<"revenue">>, JStr("2026-Q1"), JNull, JStr("MoM")) }

\* Longest list of recommendations handed to format_response.
MaxRecs == 3

\* Recommendations of each priority, two of the same priority told apart by
\* their category.
RecommendationChoices ==
    { Recommendation(category, priority, "Do {}.", "revenue", "Because {:.1f}%.", "1.0")
        : category \in {"First", "Second"}, priority \in {"High", "Medium", "Low"} }
RecommendationLists == SeqsUpTo(RecommendationChoices, MaxRecs)

\* A payload with the given recommendations and nothing else to print.
PayloadOf(recommendations) ==
    [variance |-> NoVariance, recommendations |-> recommendations,
     relevant_accounts |-> <<>>]

\* Ledgers whose last months give each pair of generated recommendations:
\* a stable year with a falling December (Low, then High), a rising one
\* (Medium twice), a falling one (High twice), a fall that has ended (High
\* alone), a single month and the empty file (none).
PrescriptiveLedgers ==
    { FactsOf(<<100, 120, 100>>), FactsOf(<<100, 100, 120>>), FactsOf(<<120, 120, 100>>),
      FactsOf(<<120, 100, 100>>), FactsOf(<<100>>), <<>> }

\* What the account search and the entity search of a call do.
SearchOf(accounts, entities) == [accounts |-> accounts, entities |-> entities]
SearchInputs ==
    { SearchOf("empty", "empty"), SearchOf("hits", "hits"),
      SearchOf("raises", "hits"), SearchOf("hits", "raises"),
      SearchOf("raises", "raises") }

(***************************************************************************)
(*                           Specifications                                *)
(***************************************************************************)

\* The classifier alone: any query, any behaviour of the model call.
ClassifyInit == ClsInit /\ SvcNew /\ EnvIdle /\ TraversalIdle /\ CallersIdle
ClassifierAlone == UNCHANGED <<svcVars, envVars, travVars, callers>>
ClassifyNext ==
    \/ ClassifyAny /\ ClassifierAlone
    \/ ClsReturn /\ ClassifierAlone
SpecClassify == ClassifyInit /\ [][ClassifyNext]_vars

\* The hierarchy index of any small accounts table.
HierInit ==
    /\ ClsIdle /\ SvcNew /\ TraversalIdle /\ CallersIdle
    /\ \E t \in HierTables : storage = Lakehouse(Stored(1, t), Stored(1, <<>>))
    /\ online = TRUE

ServiceAlone == UNCHANGED <<clsVars, travVars, callers>>
HierNext == CallBuildAccountHierarchy /\ ServiceAlone

SpecHier == HierInit /\ [][HierNext]_vars

\* One traversal, from any node of any small table, a step at a time.  The
\* interpreter keeps running the call it is in.
TravInit ==
    /\ ClsIdle /\ SvcNew /\ EnvIdle /\ CallersIdle
    /\ \E t \in TravTables : parent_to_children = ParentToChildren(t)
    /\ \E root \in TravNames : call_stack = <<EnterFrame(root)>>
    /\ visited = {}
    /\ returned = NoReturn

TraversalAlone == UNCHANGED <<clsVars, svcVars, envVars, callers>>
TravNext ==
    \/ StepRevisited /\ TraversalAlone
    \/ StepVisit /\ TraversalAlone
    \/ StepLeaf /\ TraversalAlone
    \/ StepRecurse /\ TraversalAlone
    \/ StepReturn /\ TraversalAlone

SpecTraversal == TravInit /\ [][TravNext]_vars /\ WF_vars(TravNext)


\* Metric names callers ask for: aliases of the map in several spellings, a
\* name found only in the hierarchy, a name found nowhere.
MetricInputs == {"revenue", " EBITDA ", "fccs_sales", "goodwill"}

\* Table reads, ETag checks and metric lookups on one service, in any order,
\* while the chart of accounts is replaced in the lakehouse and time passes.
ReadsInit ==
    /\ ClsIdle /\ SvcNew /\ TraversalIdle /\ CallersIdle
    /\ storage = Lakehouse(Stored(1, ChartV1), Stored(1, <<>>))
    /\ online = TRUE

ReadsNext ==
    \/ StorageWrite(ACCOUNTS_FILE, Charts) /\ ServiceAlone
    \/ GoOffline /\ ServiceAlone
    \/ GoOnline /\ ServiceAlone
    \/ Tick /\ ServiceAlone
    \/ CallGetAccounts(FALSE) /\ ServiceAlone
    \/ CallGetActualData(FALSE) /\ ServiceAlone
    \/ \E metric \in MetricInputs :
           CallGetAccountCodesForMetric(metric) /\ ServiceAlone

SpecReads == ReadsInit /\ [][ReadsNext]_vars

\* Two threads on one service over a lakehouse that does not change.
ConcInit ==
    /\ ClsIdle /\ SvcNew /\ TraversalIdle /\ CallersIdle
    /\ storage = Lakehouse(Stored(1, ChartV1), Stored(1, <<>>))
    /\ online = TRUE

CallersAlone == UNCHANGED <<clsVars, travVars>>
ConcNext ==
    \E t \in Threads :
        \/ Enter(t, "_build_account_hierarchy", "") /\ CallersAlone
        \/ Enter(t, "get_account_codes_for_metric", "ebitda") /\ CallersAlone
        \/ StepCheck(t) /\ CallersAlone
        \/ StepLoad(t) /\ CallersAlone
        \/ StepPublish(t) /\ CallersAlone
        \/ StepFill(t) /\ CallersAlone
        \/ StepBuilt(t) /\ CallersAlone
        \/ StepCollect(t) /\ CallersAlone
        \/ Leave(t) /\ CallersAlone

SpecConcurrent == ConcInit /\ [][ConcNext]_vars

\* The retriever's handlers and the service's analytics, one call at a time,
\* over any small table of actuals, the lakehouse answering or not.
RetrieveInit ==
    /\ ClsIdle /\ SvcNew /\ TraversalIdle /\ CallersIdle
    /\ \E facts \in FactsTables :
           storage = Lakehouse(Stored(1, ChartV1), Stored(1, facts))
    /\ online \in BOOLEAN

NoCallRunning == svc_result.op = "none"
RetrieveNext ==
    \/ GoOffline /\ ServiceAlone
    \/ GoOnline /\ ServiceAlone
    \/ ResultTaken /\ ServiceAlone
    \/ \E metric \in MetricInputs :
           NoCallRunning /\ CallGetAccountCodesForMetric(metric) /\ ServiceAlone
    \/ \E metric \in MetricInputs :
           NoCallRunning /\ CallGetMetricData(metric, "FY24", None) /\ ServiceAlone
    \/ \E metric \in {"total", "revenue"}, period \in {"Dec", "Jan"},
          comparison \in {"MoM", "YoY"} :
           /\ NoCallRunning
           /\ CallGetVarianceAnalysis(metric, period, comparison, "FY24")
           /\ ServiceAlone
    \/ \E handler \in Handlers, c \in ClassificationInputs, search \in SearchInputs :
           NoCallRunning /\ CallRetrieve(handler, c, search) /\ ServiceAlone

SpecRetrieve == RetrieveInit /\ [][RetrieveNext]_vars

\* Metric lookups on one service over one of the charts, the lakehouse
\* answering or not.
ResolveInit ==
    /\ ClsIdle /\ SvcNew /\ TraversalIdle /\ CallersIdle
    /\ \E chart \in ResolveCharts :
           storage = Lakehouse(Stored(1, chart), Stored(1, <<>>))
    /\ online = TRUE
ResolveNext ==
    \/ GoOffline /\ ServiceAlone
    \/ GoOnline /\ ServiceAlone
    \/ ResultTaken /\ ServiceAlone
    \/ \E metric \in ResolveInputs :
           NoCallRunning /\ CallGetAccountCodesForMetric(metric) /\ ServiceAlone

SpecResolve == ResolveInit /\ [][ResolveNext]_vars

\* Metric series asked of one service over one ledger.
SeriesInit ==
    /\ ClsIdle /\ SvcNew /\ TraversalIdle /\ CallersIdle
    /\ \E facts \in LedgerTables :
           storage = Lakehouse(Stored(1, ChartV2), Stored(1, facts))
    /\ online = TRUE
SeriesNext ==
    \/ ResultTaken /\ ServiceAlone
    \/ \E call \in SeriesCalls :
           /\ NoCallRunning
           /\ CallGetMetricData(call[1], call[2], call[3])
           /\ ServiceAlone
    \/ \E metrics \in {<<>>, <<"revenue">>} :
           /\ NoCallRunning
           /\ CallRetrieve("retrieve_for_descriptive",
                           ClassificationOf(metrics, JNull, JNull, JNull),
                           SearchOf("empty", "empty"))
           /\ ServiceAlone

SpecSeries == SeriesInit /\ [][SeriesNext]_vars

\* Comparisons asked of one service over one ledger, directly and by the
\* diagnostic handler.
VarianceInit ==
    /\ ClsIdle /\ SvcNew /\ TraversalIdle /\ CallersIdle
    /\ \E facts \in VarianceLedgers :
           storage = Lakehouse(Stored(1, ChartV2), Stored(1, facts))
    /\ online = TRUE
VarianceNext ==
    \/ ResultTaken /\ ServiceAlone
    \/ \E metric \in {"total", "revenue"}, period \in VariancePeriods,
          comparison \in {"MoM", "YoY"} :
           /\ NoCallRunning
           /\ CallGetVarianceAnalysis(metric, period, comparison, "FY24")
           /\ ServiceAlone
    \/ \E end_period \in {JNull, JStr("January 2024"), JStr("Q1 2024")},
          comparison \in {JNull, JStr("YoY")} :
           /\ NoCallRunning
           /\ CallRetrieve("retrieve_for_diagnostic",
                           ClassificationOf(<<"revenue">>, JNull, end_period, comparison),
                           SearchOf("empty", "empty"))
           /\ ServiceAlone

SpecVariance == VarianceInit /\ [][VarianceNext]_vars

\* The agents ask_query routes to, one call at a time, over any small table
\* of actuals, the lakehouse answering or not.
AgentsInit == RetrieveInit
AgentsNext ==
    \/ GoOffline /\ ServiceAlone
    \/ GoOnline /\ ServiceAlone
    \/ ResultTaken /\ ServiceAlone
    \/ \E agent \in Agents, c \in AgentClassifications,
          search \in {SearchOf("empty", "empty"), SearchOf("hits", "hits")} :
           NoCallRunning /\ CallAgentRetrieve(agent, c, search) /\ ServiceAlone

SpecAgents == AgentsInit /\ [][AgentsNext]_vars

\* One connector: change checks, recorded ETags and reads of the two files,
\* in any order, while the files are replaced and the lakehouse answers or
\* not.  update_etag_cache is handed the ETag a check returned (the empty
\* one after a failed metadata call included).
ConnectorPaths == {FilePath(f) : f \in Files}
ConnectorInit ==
    /\ ClsIdle /\ SvcNew /\ TraversalIdle /\ CallersIdle
    /\ storage = Lakehouse(Stored(1, ChartV1), Stored(1, <<>>))
    /\ online = TRUE
ConnectorNext ==
    \/ \E f \in Files : StorageWrite(f, Charts) /\ ServiceAlone
    \/ GoOffline /\ ServiceAlone
    \/ GoOnline /\ ServiceAlone
    \/ \E file_path \in ConnectorPaths : CallHasFileChanged(file_path) /\ ServiceAlone
    \/ \E file_path \in ConnectorPaths :
           /\ svc_result.op = "has_file_changed"
           /\ svc_result.args[1] = file_path
           /\ CallUpdateEtagCache(file_path, svc_result.val.new_etag)
           /\ ServiceAlone
    \/ \E file_path \in ConnectorPaths : CallReadCsvFile(file_path) /\ ServiceAlone
SpecConnector == ConnectorInit /\ [][ConnectorNext]_vars

\* The versions of the actuals file: empty, then with a row, and so on.
FactsVersions == << <<>>, FactsOf(<<100>>) >>
\* The versions a file goes through in the lakehouse.
VersionsOf(filename) == IF filename = ACCOUNTS_FILE THEN Charts ELSE FactsVersions

\* The smart cache of one service: reads of both tables, forced or not,
\* cache clearing and metric lookups in any order, while both files are
\* replaced, the lakehouse answers or not, and time passes.
CacheInit ==
    /\ ClsIdle /\ SvcNew /\ TraversalIdle /\ CallersIdle
    /\ storage = Lakehouse(Stored(1, VersionOf(Charts, 1)),
                           Stored(1, VersionOf(FactsVersions, 1)))
    /\ online = TRUE
CacheNext ==
    \/ \E f \in Files : StorageWrite(f, VersionsOf(f)) /\ ServiceAlone
    \/ GoOffline /\ ServiceAlone
    \/ GoOnline /\ ServiceAlone
    \/ Tick /\ ServiceAlone
    \/ \E force_refresh \in BOOLEAN : CallGetAccounts(force_refresh) /\ ServiceAlone
    \/ \E force_refresh \in BOOLEAN : CallGetActualData(force_refresh) /\ ServiceAlone
    \/ \E filename \in Files \cup {""} : CallClearCache(filename) /\ ServiceAlone
    \/ CallGetAccountCodesForMetric("revenue") /\ ServiceAlone
SpecCache == CacheInit /\ [][CacheNext]_vars

\* The prescriptive agent: questions answered over one ledger, and
\* format_response on any short list of recommendations.
PrescriptiveInit ==
    /\ ClsIdle /\ SvcNew /\ TraversalIdle /\ CallersIdle
    /\ \E facts \in PrescriptiveLedgers :
           storage = Lakehouse(Stored(1, ChartV1), Stored(1, facts))
    /\ online = TRUE
PrescriptiveNext ==
    \/ ResultTaken /\ ServiceAlone
    \/ \E c \in {ClassificationOf(<<>>, JNull, JNull, JNull),
                 ClassificationOf(<<"revenue">>, JNull, JNull, JNull)},
          search \in {SearchOf("empty", "empty"), SearchOf("hits", "hits")} :
           NoCallRunning /\ AskPrescriptive(c, search) /\ ServiceAlone
    \/ \E recommendations \in RecommendationLists :
           NoCallRunning /\ CallFormatResponse(PayloadOf(recommendations)) /\ ServiceAlone
SpecPrescriptive == PrescriptiveInit /\ [][PrescriptiveNext]_vars

(***************************************************************************)
(*                                Claims                                   *)
(***************************************************************************)

\* Parent-to-child links and what they reach, read off the table alone.
Links(df) ==
    {<<df[i].Parent, df[i].Account>> : i \in {j \in 1..Len(df) : df[j].Parent # NaN}}
RECURSIVE Closure(_, _)
Closure(links, nodes) ==
    LET more == nodes \cup {l[2] : l \in {k \in links : k[1] \in nodes}}
    IN  IF more = nodes THEN nodes ELSE Closure(links, more)
ReachableFrom(df, R) ==
    Closure(Links(df), {l[2] : l \in {k \in Links(df) : k[1] = R}})
ReachableLeaves(df, R) == {x \in ReachableFrom(df, R) : x \notin AllParents(df)}

StoredAccounts == storage[FilePath(ACCOUNTS_FILE)].rows

\* C1: for every accounts table and every node R, the entry the built index
\* holds for R is exactly the set of leaf accounts reachable from R over
\* parent-to-child links, and R has no entry when that set is empty.
C1_IndexIsReachableLeaves ==
    account_hierarchy.set =>
        \A R \in HierNames :
            LET leaves == ReachableLeaves(StoredAccounts, R)
                index  == account_hierarchy.index
            IN  IF leaves = {} THEN R \notin DOMAIN index
                ELSE R \in DOMAIN index /\ index[R] = leaves

\* A table whose two branches name each other as parent, one of them with a
\* leaf, has been indexed.
CyclicTable ==
    << AccountRow("FCCS_Sales", "FCCS_Net Income"),
       AccountRow("FCCS_Net Income", "FCCS_Sales"),
       AccountRow("4100", "FCCS_Sales") >>
C1_Witness ==
    /\ StoredAccounts = CyclicTable
    /\ account_hierarchy.set
    /\ DOMAIN account_hierarchy.index = {"FCCS_Sales", "FCCS_Net Income"}
    /\ account_hierarchy.index["FCCS_Net Income"] = {"4100"}

\* C2: the traversal started from any node of any finite table, cyclic ones
\* included, comes to an end and returns a finite set.
C2_TraversalTerminates == <>(returned.done /\ IsFiniteSet(returned.val))

\* A traversal of the cyclic table has met a node again and has returned.
C2_Witness ==
    /\ parent_to_children = ParentToChildren(CyclicTable)
    /\ visited = {"FCCS_Sales", "FCCS_Net Income"}
    /\ returned = [done |-> TRUE, val |-> {"4100"}]

\* C3: on one service, after any table reads, ETag checks and metric
\* lookups, a built hierarchy index is the index of the accounts table held
\* in the data cache: once the table has been reloaded on a changed ETag,
\* lookups no longer use an index of the older table.
C3_IndexFollowsReload ==
    (account_hierarchy.set /\ ACCOUNTS_FILE \in DOMAIN data_cache)
        => account_hierarchy.index = BuildIndex(data_cache[ACCOUNTS_FILE])

\* C4: with two callers on one service, a caller that has got the index back
\* from _build_account_hierarchy holds the complete index of the accounts
\* table, and the codes get_account_codes_for_metric collects from it are
\* all the leaves under the metric's accounts, however the other caller's
\* build is interleaved.
C4_NoPartialIndex ==
    \A t \in Threads :
        /\ callers[t].pc = "returned" => IndexHeldBy(t) = BuildIndex(ChartV1)
        /\ callers[t].pc = "done" =>
               callers[t].codes = BuildIndex(ChartV1)["FCCS_Operating Income"]

\* What the claims say of a query, computed from the tables alone.
MatchesGeneralPattern(q) ==
    LET text == Strip(Lower(q))
    IN  \E i \in 1..Len(GENERAL_PATTERNS) : Search(GENERAL_PATTERNS[i], text)
ContainsFinancialKeyword(q) ==
    LET text == Lower(q)
    IN  \E kw \in FINANCIAL_KEYWORDS : Contains(text, kw)
QueryTraits ==
    [q \in Queries |-> [pattern |-> MatchesGeneralPattern(q),
                        keyword |-> ContainsFinancialKeyword(q)]]

\* A classify call has returned and its result has not been taken yet.
ClassifyReturned == classification # NoClassification

\* C5: for every query and every outcome of the model call (no client, the
\* call raises, the response is no JSON object, the category is not one of
\* the five, the confidence is outside [0,1], the temporal block is missing
\* or null), classify returns a classification whose category is one of the
\* five values and whose confidence lies in [0,1].
C5_ClassifyAlwaysValid ==
    [][ClassifyAny =>
          /\ classification'.category \in QueryCategory
          /\ 0 <= classification'.confidence
          /\ classification'.confidence <= 100]_vars

\* C5 witness: the model answered a well-formed category with confidence 1.5
\* and classify still returned one of the five categories.
C5_Witness ==
    /\ llm_called
    /\ llm_response.kind = "json"
    /\ llm_response.category = JStr("predictive")
    /\ llm_response.confidence = JNum(150)
    /\ classification.category \in QueryCategory

\* C6: a query that matches a general/meta pattern and contains no financial
\* keyword is returned as GENERAL with confidence 0.95 and no metrics, and
\* no model call is made, with or without a configured client.
C6_PreFilterShortCircuits ==
    (ClassifyReturned /\ QueryTraits[query].pattern /\ ~QueryTraits[query].keyword)
        => /\ classification.category = "general"
           /\ classification.confidence = 95
           /\ classification.metrics = <<>>
           /\ ~llm_called

\* C6 witness: a client is configured, the query (with blanks around it)
\* matches a pattern, and classify returned without calling the model.
C6_Witness ==
    /\ client
    /\ query = "  Hello"
    /\ classification.category = "general"
    /\ classification.confidence = 95
    /\ ~llm_called

\* C7: a query that contains a financial keyword is never returned as GENERAL
\* by the pattern pre-filter (no return without a model call while a client
\* is configured), and never as GENERAL by the heuristic fallback (used when
\* no client is configured or the response cannot be built).
C7_FinancialNeverGeneralByRules ==
    (ClassifyReturned /\ QueryTraits[query].keyword)
        => /\ client => llm_called
           /\ (~llm_called \/ ~BuildClassification(llm_response).ok)
                  => classification.category # "general"

\* C7 witness: a query that matches a general pattern and names a metric was
\* classified by the fallback.
C7_Witness ==
    /\ ~client
    /\ query = "what data Revenue"
    /\ classification.category = "descriptive"

\* The output schema of section 3: category one of the five, confidence a
\* number in [0,1], both required; the other keys optional but typed.
SchemaValid(r) ==
    /\ r.kind = "json"
    /\ r.category.t = "str" /\ r.category.s \in QueryCategory
    /\ r.confidence.t = "num" /\ 0 <= r.confidence.n /\ r.confidence.n <= 100
    /\ r.metrics.t \in {"missing", "list"}
    /\ r.dimensions.t \in {"missing", "list"}
    /\ r.temporal.t \in {"missing", "obj"}
    /\ r.temporal.start_period.t \in {"missing", "null", "str"}
    /\ r.temporal.end_period.t \in {"missing", "null", "str"}
    /\ r.temporal.granularity.t \in {"missing", "null", "str"}
    /\ r.temporal.is_forecast.t \in {"missing", "bool"}
    /\ r.comparison_type.t \in {"missing", "null", "str"}
    /\ r.reasoning.t \in {"missing", "str"}

\* C8: when the pre-filter does not answer and the model is unavailable or
\* its response is invalid for the output schema (no JSON object, category
\* or confidence missing, a field of the wrong type), classify returns
\* exactly what the heuristic fallback gives for the query.
C8_InvalidResponseFallsBack ==
    (ClassifyReturned /\ ~(QueryTraits[query].pattern /\ ~QueryTraits[query].keyword)
                      /\ (~client \/ ~SchemaValid(llm_response)))
        => classification = FallbackClassification(query)

\* The computations that depend on the tables.
DependentOps ==
    Handlers \cup {"get_account_codes_for_metric", "get_metric_data",
                   "get_variance_analysis"}

\* C9: when the lakehouse does not answer and the service holds no cached
\* table, a dependent computation (metric resolution, get_metric_data,
\* get_variance_analysis, a handler) returns a result without data instead
\* of raising.
C9_LoadFailureIsNoData ==
    (svc_result.op \in DependentOps /\ ~online /\ data_cache = EmptyDict)
        => /\ svc_result.ok
           /\ svc_result.op = "get_metric_data" => ~svc_result.val.has_data
           /\ svc_result.op = "get_account_codes_for_metric" => svc_result.val = {}

\* A search outcome with the raising searches finding nothing instead.
Quiet(search) ==
    [accounts |-> IF search.accounts = "raises" THEN "empty" ELSE search.accounts,
     entities |-> IF search.entities = "raises" THEN "empty" ELSE search.entities]

\* C10: in every retrieve_for_* handler a semantic search that raises is
\* swallowed: the call ends as it would have ended had the search found
\* nothing, with the same payload, and the related list is empty.
C10_SearchFailureSwallowed ==
    [][(svc_result.op = "none" /\ svc_result'.op \in Handlers
        /\ "raises" \in {svc_result'.args[2].accounts, svc_result'.args[2].entities})
       => LET handler  == svc_result'.op
              c        == svc_result'.args[1]
              search   == svc_result'.args[2]
          IN  /\ \E expected \in {Retrieve(handler, Svc, Env, c, Quiet(search))} :
                    /\ svc_result'.ok = expected.ok
                    /\ svc_result'.val = expected.val
              /\ (svc_result'.ok /\ search.accounts = "raises")
                     => svc_result'.val.relevant_accounts = <<>>
              /\ (svc_result'.ok /\ search.entities = "raises"
                                 /\ handler = "retrieve_for_descriptive")
                     => svc_result'.val.relevant_entities = <<>>]_vars

\* C10 witness: the account search raised and retrieve_for_predictive
\* returned its projections with no related accounts.
C10_Witness ==
    /\ svc_result.op = "retrieve_for_predictive"
    /\ svc_result.args[2].accounts = "raises"
    /\ svc_result.ok
    /\ svc_result.val.relevant_accounts = <<>>
    /\ Len(svc_result.val.projections) = 3

\* A metric some alias of the service or some column or alias of the mock
\* data knows.
KnownMetric(metric) ==
    \/ MapTargets(Strip(Lower(metric))) # <<>>
    \/ Lower(metric) \in MOCK_COLUMNS
    \/ InMapping(DESCRIPTIVE_METRIC_MAPPING, Lower(metric))
    \/ InMapping(DIAGNOSTIC_METRIC_MAPPING, Lower(metric))

\* A classification with a primary metric nothing knows and nothing else
\* set: periods and comparison type are left to the defaults.
UnknownMetricOnly(c) ==
    /\ c.metrics # <<>>
    /\ ~KnownMetric(c.metrics[1])
    /\ c.temporal.start_period = JNull
    /\ c.temporal.end_period = JNull
    /\ c.comparison_type = JNull

\* C11: for a classification whose primary metric is not a known metric,
\* the retrieve of each category agent returns a payload and does not raise
\* (a table that cannot be loaded aside).
C11_UnknownMetricNeverRaises ==
    (svc_result.op \in Agents /\ UnknownMetricOnly(svc_result.args[1]))
        => \/ svc_result.ok
           \/ svc_result.val.exception = "read_csv_file failed"

\* The tables can be loaded: the lakehouse answers or both are cached.
Loadable == online \/ Files \subseteq DOMAIN data_cache

\* No alias key matches the phrase, exactly or by substring in either
\* direction, and no name of the index contains it.
Unresolvable(metric, index) ==
    LET metric_lower == Strip(Lower(metric))
    IN  /\ \A i \in 1..Len(METRIC_TO_ACCOUNT_MAP) :
              LET key == METRIC_TO_ACCOUNT_MAP[i].key
              IN  ~Contains(key, metric_lower) /\ ~Contains(metric_lower, key)
        /\ \A name \in DOMAIN index : ~Contains(Lower(name), metric_lower)

\* The rows of the actuals of a year under a set of codes.
MatchingRows(facts, year, codes) ==
    {i \in 1..Len(facts) : facts[i].Years = year /\ facts[i].Account \in codes}

\* C12: with the tables loadable, a metric phrase that matches no alias key
\* and no name of the index makes get_account_codes_for_metric return no
\* codes and get_metric_data return has_data = false with empty data,
\* without raising; get_metric_data returns the same when the resolved codes
\* match no fact row of the year.
C12_UnknownMetricIsEmpty ==
    [][(NoCallRunning /\ Loadable
        /\ svc_result'.op \in {"get_account_codes_for_metric", "get_metric_data"})
       => LET metric == svc_result'.args[1]
              unknown == Unresolvable(metric, account_hierarchy'.index)
              codes == get_account_codes_for_metric(Svc, Env, metric).val
              facts == storage[FilePath(ACTUAL_FILE)].rows
          IN  /\ (unknown /\ svc_result'.op = "get_account_codes_for_metric")
                    => svc_result'.ok /\ svc_result'.val = {}
              /\ (svc_result'.op = "get_metric_data"
                  /\ (unknown \/ MatchingRows(facts, svc_result'.args[2], codes) = {}))
                    => /\ svc_result'.ok
                       /\ ~svc_result'.val.has_data
                       /\ svc_result'.val.data = <<>>]_vars

\* get_metric_data was asked for a metric nothing knows and returned the
\* empty result.
C12_Witness ==
    /\ svc_result.op = "get_metric_data"
    /\ Unresolvable(svc_result.args[1], account_hierarchy.index)
    /\ svc_result.ok
    /\ ~svc_result.val.has_data
    /\ svc_result.val.data = <<>>
    /\ account_hierarchy.set

\* The positions of the alias keys equal to a phrase, and of those that
\* contain it or are contained in it.
ExactKeys(phrase) ==
    {i \in 1..Len(METRIC_TO_ACCOUNT_MAP) : METRIC_TO_ACCOUNT_MAP[i].key = phrase}
SubstringKeys(phrase) ==
    {i \in 1..Len(METRIC_TO_ACCOUNT_MAP) :
        \/ Contains(METRIC_TO_ACCOUNT_MAP[i].key, phrase)
        \/ Contains(phrase, METRIC_TO_ACCOUNT_MAP[i].key)}
AccountsOfKey(i) == Range(METRIC_TO_ACCOUNT_MAP[i].accounts)
NamesContaining(index, phrase) ==
    {name \in DOMAIN index : Contains(Lower(name), phrase)}
LeavesUnder(index, roots) == UNION {index[name] : name \in roots \cap DOMAIN index}

\* The accounts table can be loaded: the lakehouse answers or it is cached.
AccountsLoadable == online \/ ACCOUNTS_FILE \in DOMAIN data_cache

\* C13: metric resolution takes the roots of the exact alias alone when
\* there is one; of one alias that contains the phrase or is contained in
\* it only when there is no exact alias; the names of the index that
\* contain the phrase only when the alias table gives nothing; the codes
\* returned are the leaves under these roots and no others.
C13_ResolutionOrder ==
    [][(NoCallRunning /\ AccountsLoadable
        /\ svc_result'.op = "get_account_codes_for_metric")
       => \E phrase \in {Strip(Lower(svc_result'.args[1]))},
             index  \in {account_hierarchy'.index},
             roots  \in {TargetAccounts(Svc, Env, svc_result'.args[1]).val} :
              /\ svc_result'.ok
              /\ svc_result'.val = LeavesUnder(index, roots)
              /\ IF ExactKeys(phrase) # {}
                 THEN roots = UNION {AccountsOfKey(i) : i \in ExactKeys(phrase)}
                 ELSE IF SubstringKeys(phrase) # {}
                 THEN \E i \in SubstringKeys(phrase) : roots = AccountsOfKey(i)
                 ELSE roots = NamesContaining(index, phrase)]_vars

\* "current assets" (an exact alias that contains the earlier alias
\* "assets") was resolved to the leaves of FCCS_Current Assets alone.
C13_Witness ==
    /\ svc_result.op = "get_account_codes_for_metric"
    /\ svc_result.args[1] = "current assets"
    /\ svc_result.ok
    /\ svc_result.val = {"1100"}
    /\ "FCCS_Total Assets" \in DOMAIN account_hierarchy.index

\* Spellings of a phrase that differ from it in the case of letters or in
\* blanks before and after it only.
UpperChar(c) ==
    IF \E i \in 1..Len(LowerLetters) : Ch(LowerLetters, i) = c
    THEN Ch(UpperLetters, CHOOSE i \in 1..Len(LowerLetters) : Ch(LowerLetters, i) = c)
    ELSE c
RECURSIVE UpperFrom(_, _)
UpperFrom(s, i) ==
    IF i > Len(s) THEN "" ELSE UpperChar(Ch(s, i)) \o UpperFrom(s, i + 1)
Upper(s) == UpperFrom(s, 1)
Capitalised(s) ==
    IF s = "" THEN "" ELSE UpperChar(Ch(s, 1)) \o SubSeq(s, 2, Len(s))
Variants(phrase) ==
    LET cases == {phrase, Lower(phrase), Upper(phrase), Capitalised(Lower(phrase))}
    IN  cases \cup {Strip(v) : v \in cases}
              \cup {"  " \o v \o "  " : v \in cases}
              \cup {"\t" \o v \o "\n" : v \in cases}

\* C14: a metric phrase and every spelling of it that differs in letter
\* case or in leading and trailing whitespace only resolve, on the same
\* service, to the same roots and to the same leaf account codes.
C14_SpellingIrrelevant ==
    [][(NoCallRunning /\ AccountsLoadable
        /\ svc_result'.op = "get_account_codes_for_metric")
       => \A v \in Variants(svc_result'.args[1]) :
             LET roots == TargetAccounts(Svc, Env, v)
                 codes == get_account_codes_for_metric(Svc, Env, v)
             IN  /\ roots.ok /\ codes.ok /\ svc_result'.ok
                 /\ roots.val = TargetAccounts(Svc, Env, svc_result'.args[1]).val
                 /\ codes.val = svc_result'.val
                 /\ codes.S.account_hierarchy = account_hierarchy']_vars

\* " CURRENT ASSETS<tab>" was resolved to the leaves "current assets" has.
C14_Witness ==
    /\ svc_result.op = "get_account_codes_for_metric"
    /\ svc_result.args[1] = " CURRENT ASSETS\t"
    /\ svc_result.ok
    /\ svc_result.val = {"1100"}

\* The rows of the stored ledger, and the sum of the amounts of some of them.
StoredFacts == storage[FilePath(ACTUAL_FILE)].rows
RECURSIVE AmountOver(_, _)
AmountOver(facts, rows) ==
    IF rows = {} THEN 0
    ELSE LET i == CHOOSE n \in rows : TRUE
         IN  facts[i].Amount + AmountOver(facts, rows \ {i})

\* C15: the rows get_metric_data returns are one row for each period that
\* has a ledger row of the requested year, of the entity when one is given,
\* and of an account of the resolved leaf set; a row's amount is the sum of
\* the amounts of these ledger rows; the rows stand in the order Jan..Dec.
C15_SeriesIsPeriodTotals ==
    [][(NoCallRunning /\ svc_result'.op = "get_metric_data")
       => LET metric == svc_result'.args[1]
              year   == svc_result'.args[2]
              entity == svc_result'.args[3]
              facts  == StoredFacts
              codes  == LeavesUnder(account_hierarchy'.index,
                                    TargetAccounts(Svc, Env, metric).val)
              Of(period) == {i \in 1..Len(facts) :
                                /\ facts[i].Period = period
                                /\ facts[i].Years = year
                                /\ facts[i].Account \in codes
                                /\ EntityMatches(facts[i], entity)}
              periods == {period \in Range(PERIOD_ORDER) : Of(period) # {}}
              data == svc_result'.val.data
          IN  /\ svc_result'.ok
              /\ svc_result'.val.has_data = (periods # {})
              /\ Len(data) = Cardinality(periods)
              /\ \A period \in periods :
                    \E i \in 1..Len(data) :
                        /\ data[i].Period = period
                        /\ data[i].Amount = AmountOver(facts, Of(period))
              /\ \A i, j \in 1..Len(data) :
                    i < j => IndexIn(PERIOD_ORDER, data[i].Period)
                                 < IndexIn(PERIOD_ORDER, data[j].Period)]_vars

\* The revenue of FY24 was returned as January (two ledger rows of two
\* accounts added up), February, April, October.
C15_Witness ==
    /\ svc_result.op = "get_metric_data"
    /\ svc_result.args = <<"revenue", "FY24", None>>
    /\ svc_result.ok
    /\ svc_result.val.has_data
    /\ Len(svc_result.val.data) = 4
    /\ svc_result.val.data[1].Period = "Jan"
    /\ svc_result.val.data[1].Amount = 107
    /\ svc_result.val.data[2].Period = "Feb"
    /\ svc_result.val.data[3].Period = "Apr"
    /\ svc_result.val.data[4].Period = "Oct"

\* The trend a call returned, and the number of period totals it is of.
ReturnedTrend ==
    /\ svc_result.ok
    /\ \/ svc_result.op = "retrieve_for_descriptive"
       \/ svc_result.op = "get_metric_data" /\ svc_result.val.has_data
Hundredths(n) == 100 * n

\* C16: the direction of a trend of at least two period totals is
\* 'increasing' exactly when the growth_pct reported with it is above 5.0,
\* 'decreasing' exactly when it is below -5.0, and 'stable' otherwise (a
\* reported growth_pct of exactly 5.0 goes with 'stable'); a trend of fewer
\* than two totals is 'insufficient_data'.
C16_DirectionFollowsReportedGrowth ==
    ReturnedTrend =>
        LET trend == svc_result.val.trend
        IN  IF Len(svc_result.val.data) >= 2
            THEN trend.direction =
                     IF trend.growth_pct > Hundredths(5) THEN "increasing"
                     ELSE IF trend.growth_pct < Hundredths(-5) THEN "decreasing"
                     ELSE "stable"
            ELSE trend.direction = "insufficient_data"

\* The statistics of no period totals, and the ledgers that give
\* get_financial_summary no row of a year.
ZeroStats ==
    [total |-> 0, average |-> RatOf(0), min |-> 0, max |-> 0, periods |-> 0]
NoRowsOf(year) == \A i \in 1..Len(StoredFacts) : StoredFacts[i].Years # year

\* C17: where the pipeline computes the summary statistics of an empty
\* series of period totals (get_metric_data, the general-summary path of
\* retrieve_for_descriptive) the call returns, with total, average, min,
\* max and count 0.
C17_EmptySeriesStatsAreZero ==
    /\ (svc_result.op = "retrieve_for_descriptive" /\ NoRowsOf("FY24"))
           => svc_result.ok /\ svc_result.val.summary = ZeroStats
    /\ (svc_result.op = "get_metric_data" /\ svc_result.ok
        /\ svc_result.val.has_data /\ svc_result.val.data = <<>>)
           => svc_result.val.summary = ZeroStats

\* The comparison a call returned, with the metric, period, kind and year it
\* was made for.
ReturnedVariance ==
    IF svc_result.op = "get_variance_analysis"
    THEN [made |-> TRUE, ok |-> svc_result.ok, val |-> svc_result.val,
          metric |-> svc_result.args[1], period |-> svc_result.args[2],
          comparison |-> svc_result.args[3], year |-> svc_result.args[4]]
    ELSE IF svc_result.op = "retrieve_for_diagnostic"
    THEN [made |-> TRUE, ok |-> svc_result.ok,
          val |-> IF svc_result.ok THEN svc_result.val.variance ELSE <<>>,
          metric |-> svc_result.args[1].metrics[1],
          period |-> DiagnosticPeriod(svc_result.args[1]),
          comparison |-> IF Truthy(svc_result.args[1].comparison_type)
                         THEN svc_result.args[1].comparison_type.s ELSE "MoM",
          year |-> "FY24"]
    ELSE [made |-> FALSE]

\* The total of a period of a year in the stored ledger, over the leaves the
\* metric resolves to (over every account for "total" and for a metric that
\* resolves to nothing).
PeriodTotal(metric, year, period) ==
    LET codes == IF Lower(metric) = "total" THEN {}
                 ELSE LeavesUnder(account_hierarchy.index,
                                  TargetAccounts(Svc, Env, metric).val)
    IN  AmountOver(StoredFacts,
                   {i \in 1..Len(StoredFacts) :
                       /\ StoredFacts[i].Years = year
                       /\ StoredFacts[i].Period = period
                       /\ codes # {} => StoredFacts[i].Account \in codes})

\* C18: a month-over-month comparison for a period from Feb to Dec is made
\* with the calendar month before it in the same fiscal year: variance is
\* the period's total less that month's, variance_pct is variance over that
\* month's total times 100, and 0 when that total is 0.
C18_MonthOverMonth ==
    LET v == ReturnedVariance
    IN  (v.made /\ v.comparison = "MoM" /\ IndexIn(PERIOD_ORDER, v.period) >= 2)
        => LET before   == PERIOD_ORDER[IndexIn(PERIOD_ORDER, v.period) - 1]
               current  == PeriodTotal(v.metric, v.year, v.period)
               previous == PeriodTotal(v.metric, v.year, before)
           IN  /\ v.ok
               /\ v.val.previous_period = before
               /\ v.val.current_value = current
               /\ v.val.previous_value = previous
               /\ v.val.variance = current - previous
               /\ v.val.variance_pct =
                      IF previous # 0 THEN Rat((current - previous) * 100, previous)
                      ELSE RatOf(0)

\* March = 130 was compared with February = 110: variance 20, 200/11 percent
\* (18.18...).
C18_Witness ==
    /\ svc_result.op = "get_variance_analysis"
    /\ svc_result.args = <<"revenue", "Mar", "MoM", "FY24">>
    /\ svc_result.ok
    /\ svc_result.val.previous_period = "Feb"
    /\ svc_result.val.variance = 20
    /\ svc_result.val.variance_pct = Rat(200, 11)
    /\ Round2(svc_result.val.variance_pct) = 1818

\* The fiscal year before a fiscal year.
PriorYear(year) ==
    IF IndexIn(YEARS, year) >= 2 THEN YEARS[IndexIn(YEARS, year) - 1] ELSE None

\* C19: a year-over-year comparison is made with the same period of the
\* fiscal year before: previous_value is the total of that period in that
\* year.
C19_YearOverYear ==
    LET v == ReturnedVariance
    IN  (v.made /\ v.comparison = "YoY" /\ IndexIn(PERIOD_ORDER, v.period) >= 1)
        => /\ v.ok
           /\ v.val.previous_period = v.period
           /\ v.val.previous_value =
                  PeriodTotal(v.metric, PriorYear(v.year), v.period)

\* C20: for a historical series of at least three period totals the k-th
\* projected amount is the last total plus k times the average step
\* (last - first) / (count - 1); for a shorter series there is no projection.
C20_ProjectionIsAverageStep ==
    (svc_result.op = "retrieve_for_predictive" /\ svc_result.ok)
        => LET amounts == Amounts(svc_result.val.historical_data)
               count   == Len(amounts)
               first   == amounts[1]
               last    == amounts[count]
               projections == svc_result.val.projections
           IN  IF count >= 3
               THEN /\ projections # <<>>
                    /\ \A k \in 1..Len(projections) :
                          projections[k].projected_amount =
                              RatPlus(RatOf(last), Rat(k * (last - first), count - 1))
               ELSE projections = <<>>

\* The cue sets of section 3 that occur in a query, read off the lower-cased
\* and stripped text.
HasCue(q, cues) ==
    LET text == Strip(Lower(q))
    IN  \E cue \in cues : Contains(text, cue)
QueryCues ==
    [q \in Queries |-> [diagnostic   |-> HasCue(q, DiagnosticCues),
                        predictive   |-> HasCue(q, PredictiveCues),
                        prescriptive |-> HasCue(q, PrescriptiveCues),
                        descriptive  |-> HasCue(q, DescriptiveCues)]]

\* The heuristic fallback produced the classification that was returned: no
\* model call was made, or the response of the call could not be built.
ByFallback ==
    /\ ClassifyReturned
    /\ ~llm_called \/ ~BuildClassification(llm_response).ok

\* C21: in the heuristic fallback, a query with financial context gets the
\* category of the first cue set that matches, in the order diagnostic,
\* predictive, prescriptive, descriptive; with no cue at all it is
\* DESCRIPTIVE with confidence 0.6, which no fallback result goes below.
C21_FallbackCuePriority ==
    (ByFallback /\ QueryTraits[query].keyword)
        => LET cues == QueryCues[query]
           IN  /\ classification.category =
                      IF cues.diagnostic THEN "diagnostic"
                      ELSE IF cues.predictive THEN "predictive"
                      ELSE IF cues.prescriptive THEN "prescriptive"
                      ELSE "descriptive"
               /\ ~(cues.diagnostic \/ cues.predictive \/ cues.prescriptive
                                    \/ cues.descriptive)
                      => /\ classification.confidence = 60
                         /\ \A q \in Queries : QueryFacts[q].fallback.confidence >= 60

\* C21 witness: a query with a diagnostic and a predictive cue and financial
\* context went through the fallback and came out DIAGNOSTIC.
C21_Witness ==
    /\ ByFallback
    /\ query = "Why forecast"
    /\ QueryTraits[query].keyword
    /\ QueryCues[query].diagnostic /\ QueryCues[query].predictive
    /\ classification.category = "diagnostic"

\* The enumerations of section 3 for the two optional fields.
ComparisonTypes == {"YoY", "QoQ", "vs_budget", "vs_forecast"}
Granularities   == {"monthly", "quarterly", "annual"}

\* C22: every classification that classify returns, on every path (pre-filter,
\* fallback and model), has comparison_type absent or one of YoY, QoQ,
\* vs_budget, vs_forecast, and temporal.granularity absent or one of monthly,
\* quarterly, annual.
C22_OptionalEnumsHold ==
    ClassifyReturned
        => /\ \/ classification.comparison_type = JNull
              \/ /\ classification.comparison_type.t = "str"
                 /\ classification.comparison_type.s \in ComparisonTypes
           /\ \/ classification.temporal.granularity = JNull
              \/ /\ classification.temporal.granularity.t = "str"
                 /\ classification.temporal.granularity.s \in Granularities

\* The recommendations a returned call was given (format_response) or
\* generated (ask_query), and the numbered lines it printed for them.
Recommended ==
    IF svc_result.op = "format_response" THEN svc_result.args[1].recommendations
    ELSE IF svc_result.op = "ask_query" /\ svc_result.ok
    THEN svc_result.val.data.recommendations
    ELSE <<>>
Presented ==
    IF svc_result.op = "format_response" THEN svc_result.val.recommendations
    ELSE IF svc_result.op = "ask_query" /\ svc_result.ok
    THEN svc_result.val.answer.recommendations
    ELSE <<>>
Priorities == <<"High", "Medium", "Low">>
\* The items of one priority, in the order of the list, without numbering.
OfPriority(items, priority) ==
    LET chosen == SelectSeq(items, LAMBDA r : r.priority = priority)
    IN  [i \in 1..Len(chosen) |->
            [category |-> chosen[i].category,
             recommendation |-> chosen[i].recommendation,
             rationale |-> chosen[i].rationale]]

\* C23: the prescriptive response lists the recommendations by priority,
\* every High before every Medium and every Medium before every Low, those
\* of equal priority in their original order, none lost or added; and every
\* generated recommendation has priority High, Medium or Low.
C23_RecommendationsByPriority ==
    /\ Len(Presented) = Len(Recommended)
    /\ \A i \in 1..Len(Presented) : Presented[i].number = i
    /\ \A i, j \in 1..Len(Presented) :
           i < j => IndexIn(Priorities, Presented[i].priority)
                        <= IndexIn(Priorities, Presented[j].priority)
    /\ \A k \in 1..Len(Priorities) :
           OfPriority(Presented, Priorities[k]) = OfPriority(Recommended, Priorities[k])
    /\ svc_result.op = "ask_query"
           => \A i \in 1..Len(Recommended) :
                  Recommended[i].priority \in Range(Priorities)

\* C23 witness: a question over a stable year with a falling December
\* generated a Low and then a High recommendation, printed High first.
C23_Witness ==
    /\ svc_result.op = "ask_query" /\ svc_result.ok
    /\ Len(Recommended) = 2
    /\ Recommended[1].priority = "Low" /\ Recommended[2].priority = "High"
    /\ Presented[1].priority = "High" /\ Presented[2].priority = "Low"
    /\ Presented[1].category = Recommended[2].category

\* An ETag of the file is recorded for the path on the connector.
Recorded(file_path) ==
    /\ file_path \in DOMAIN connector_etag_cache
    /\ connector_etag_cache[file_path] # EmptyEtag

\* C24 as stated: has_file_changed reports changed when no ETag is recorded
\* for the path; with the file's ETag recorded it reports unchanged while
\* the stored file still has that ETag and changed once it has another; and
\* it never alters the recorded ETag.
C24_ChangeDetection ==
    [][\A file_path \in ConnectorPaths :
          (svc_result'.op = "has_file_changed" /\ CallHasFileChanged(file_path))
              => /\ file_path \notin DOMAIN connector_etag_cache
                     => svc_result'.val.has_changed
                 /\ Recorded(file_path)
                     => svc_result'.val.has_changed
                            = (storage[file_path].etag # connector_etag_cache[file_path])
                 /\ connector_etag_cache' = connector_etag_cache]_vars

\* C24 amended: the same, the recorded ETag being compared with the stored
\* one only while the lakehouse answers the metadata request; when the
\* request fails, a check against a recorded ETag reports changed.
C24_ChangeDetectionWhileReachable ==
    [][\A file_path \in ConnectorPaths :
          (svc_result'.op = "has_file_changed" /\ CallHasFileChanged(file_path))
              => /\ file_path \notin DOMAIN connector_etag_cache
                     => svc_result'.val.has_changed
                 /\ (Recorded(file_path) /\ online)
                     => svc_result'.val.has_changed
                            = (storage[file_path].etag # connector_etag_cache[file_path])
                 /\ (Recorded(file_path) /\ ~online) => svc_result'.val.has_changed
                 /\ connector_etag_cache' = connector_etag_cache]_vars

\* C24 witness: the accounts file was replaced, its new ETag was recorded,
\* and a check made while the lakehouse answers reported no change.
C24_Witness ==
    /\ svc_result.op = "has_file_changed"
    /\ svc_result.args = <<FilePath(ACCOUNTS_FILE)>>
    /\ online
    /\ storage[FilePath(ACCOUNTS_FILE)].etag = 2
    /\ Recorded(FilePath(ACCOUNTS_FILE))
    /\ connector_etag_cache[FilePath(ACCOUNTS_FILE)] = 2
    /\ ~svc_result.val.has_changed

\* A read of a table through the data service.
ReadOf(filename, force_refresh) ==
    IF filename = ACCOUNTS_FILE
    THEN svc_result'.op = "get_accounts" /\ CallGetAccounts(force_refresh)
    ELSE svc_result'.op = "get_actual_data" /\ CallGetActualData(force_refresh)
\* The file as the lakehouse holds it now.
StoredFile(filename) == storage[FilePath(filename)]
\* The cached copy of a file is not what the lakehouse holds.
CopyOutdated(filename) ==
    /\ filename \in DOMAIN data_cache
    /\ etag_cache[filename] # StoredFile(filename).etag
    /\ data_cache[filename] # StoredFile(filename).rows
\* More than the check interval has passed since the last ETag check.
IntervalElapsed(filename) ==
    filename \in DOMAIN last_check /\ last_check[filename] > CheckInterval

\* C25: when a cached file has been replaced in the lakehouse, the check
\* interval has passed since the last ETag check and the lakehouse answers,
\* the next read through the data service reloads the file and returns the
\* new content; and no read goes back to older content: what a read returns
\* is the version whose ETag the service holds, and that ETag never falls
\* back to an earlier one (the connector keeps the ETag of the last load,
\* also across clear_cache).
C25_ChangedFileIsReloaded ==
    [][\A filename \in Files, force_refresh \in BOOLEAN :
          ReadOf(filename, force_refresh)
              => /\ (CopyOutdated(filename) /\ IntervalElapsed(filename) /\ online)
                     => /\ svc_result'.ok
                        /\ svc_result'.val = StoredFile(filename).rows
                        /\ data_cache'[filename] = StoredFile(filename).rows
                        /\ etag_cache'[filename] = StoredFile(filename).etag
                 /\ svc_result'.ok
                     => /\ svc_result'.val
                               = VersionOf(VersionsOf(filename), etag_cache'[filename])
                        /\ filename \in DOMAIN etag_cache
                               => etag_cache'[filename] >= etag_cache[filename]
                        /\ FilePath(filename) \in DOMAIN connector_etag_cache
                               => etag_cache'[filename]
                                      >= connector_etag_cache[FilePath(filename)]]_vars

\* C25 witness: the accounts table was read (the index built from it is
\* still held), then replaced; a read without force_refresh has just checked
\* the ETag and returned the new table.
C25_Witness ==
    /\ svc_result.op = "get_accounts"
    /\ svc_result.args = <<FALSE>>
    /\ svc_result.ok
    /\ svc_result.val = ChartV2
    /\ account_hierarchy = HierarchyOf(BuildIndex(ChartV1))
    /\ StoredFile(ACCOUNTS_FILE) = Stored(2, ChartV2)
    /\ data_cache[ACCOUNTS_FILE] = ChartV2
    /\ last_check[ACCOUNTS_FILE] = 0

\* What the lakehouse may hold and do while a read is made: any stored
\* versions of the two files, answering or not.
Environments ==
    { [storage |-> Lakehouse(Stored(a, VersionOf(Charts, a)),
                             Stored(b, VersionOf(FactsVersions, b))),
       online  |-> up] : a, b \in 1..MaxEtag, up \in BOOLEAN }
\* The file is cached and its last ETag check is at most the interval ago.
WithinInterval(filename) ==
    /\ filename \in DOMAIN data_cache
    /\ filename \in DOMAIN last_check
    /\ last_check[filename] <= CheckInterval

\* C26: a read without force_refresh of a cached file, made within the check
\* interval of the last ETag check, returns the cached table, leaves the
\* data cache, the ETag cache, the last-check times and the connector's
\* ETags as they were, and does not depend on the lakehouse: whatever the
\* lakehouse holds, and whether it answers or not, the outcome is the same.
C26_FreshCopyServedLocally ==
    [][\A filename \in Files :
          (WithinInterval(filename) /\ ReadOf(filename, FALSE))
              => /\ svc_result'.ok
                 /\ svc_result'.val = data_cache[filename]
                 /\ UNCHANGED <<data_cache, etag_cache, last_check,
                                connector_etag_cache, account_hierarchy>>
                 /\ \A E \in Environments :
                        ReadCsvWithSmartCache(Svc, E, filename, FALSE)
                            = Returned(Svc, data_cache[filename])]_vars

\* C26 witness: the accounts table is cached, the file has since been
\* replaced and the lakehouse does not answer; a read without force_refresh
\* five minutes after the last check returned the cached table.
C26_Witness ==
    /\ svc_result.op = "get_accounts"
    /\ svc_result.args = <<FALSE>>
    /\ svc_result.ok
    /\ svc_result.val = ChartV1
    /\ data_cache[ACCOUNTS_FILE] = ChartV1
    /\ last_check[ACCOUNTS_FILE] = CheckInterval
    /\ StoredFile(ACCOUNTS_FILE).etag = 2
    /\ ~online

\* A read now would try to load the file and the load would fail: the
\* lakehouse does not answer, and the file is not cached, or the refresh is
\* forced, or the ETag check is due (it then cannot confirm the recorded ETag).
ReloadFails(filename, force_refresh) ==
    /\ ~online
    /\ \/ filename \notin DOMAIN data_cache
       \/ force_refresh
       \/ IntervalElapsed(filename)

\* C27: a read whose reload fails returns the cached copy when there is one,
\* and leaves the file's data-cache and ETag-cache entries as they were; a
\* read raises only when no copy of the file is cached, and then creates no
\* cache entry for it.
C27_StaleCopyOnFailedReload ==
    [][\A filename \in Files, force_refresh \in BOOLEAN :
          ReadOf(filename, force_refresh)
              => /\ (ReloadFails(filename, force_refresh)
                         /\ filename \in DOMAIN data_cache)
                     => /\ svc_result'.ok
                        /\ svc_result'.val = data_cache[filename]
                        /\ data_cache' = data_cache
                        /\ etag_cache' = etag_cache
                 /\ (ReloadFails(filename, force_refresh)
                         /\ filename \notin DOMAIN data_cache)
                     => ~svc_result'.ok
                 /\ ~svc_result'.ok
                     => /\ filename \notin DOMAIN data_cache
                        /\ filename \notin DOMAIN data_cache'
                        /\ filename \notin DOMAIN etag_cache'
                        /\ filename \notin DOMAIN last_check']_vars

\* C27 witness: the accounts file was replaced after it was cached and the
\* lakehouse does not answer; a forced read returned the cached table and
\* the caches still hold the old table and its ETag.
C27_Witness ==
    /\ svc_result.op = "get_accounts"
    /\ svc_result.args = <<TRUE>>
    /\ svc_result.ok
    /\ svc_result.val = ChartV1
    /\ ~online
    /\ StoredFile(ACCOUNTS_FILE) = Stored(2, ChartV2)
    /\ data_cache[ACCOUNTS_FILE] = ChartV1
    /\ etag_cache[ACCOUNTS_FILE] = 1

\* The dict after is the dict before without the key, nothing else touched.
OnlyDropped(before, after, key) ==
    /\ DOMAIN after = DOMAIN before \ {key}
    /\ \A k \in DOMAIN after : after[k] = before[k]

\* C28: clear_cache(filename) removes that file's data, ETag and last-check
\* entries and nothing else: the other file's entries and a built hierarchy
\* index stay, also when the file is the accounts table.  clear_cache()
\* empties the three caches and drops the index, and a metric lookup that
\* finds no index builds it from the accounts table it then reads.
C28_ClearCacheFrame ==
    [][/\ \A filename \in Files :
            (svc_result'.op = "clear_cache" /\ CallClearCache(filename))
                => /\ OnlyDropped(data_cache, data_cache', filename)
                   /\ OnlyDropped(etag_cache, etag_cache', filename)
                   /\ OnlyDropped(last_check, last_check', filename)
                   /\ account_hierarchy' = account_hierarchy
       /\ (svc_result'.op = "clear_cache" /\ CallClearCache(""))
                => /\ DOMAIN data_cache' = {}
                   /\ DOMAIN etag_cache' = {}
                   /\ DOMAIN last_check' = {}
                   /\ ~account_hierarchy'.set
       /\ (/\ svc_result'.op = "get_account_codes_for_metric"
           /\ CallGetAccountCodesForMetric("revenue")
           /\ ~account_hierarchy.set
           /\ svc_result'.ok)
                => /\ account_hierarchy'.set
                   /\ account_hierarchy'.index = BuildIndex(data_cache'[ACCOUNTS_FILE])
                   /\ (ACCOUNTS_FILE \notin DOMAIN data_cache)
                          => data_cache'[ACCOUNTS_FILE] = StoredFile(ACCOUNTS_FILE).rows]_vars

\* C28 witness: with both tables cached and the index built,
\* clear_cache of the accounts table has left the other table and the index.
C28_Witness ==
    /\ svc_result.op = "clear_cache"
    /\ svc_result.args = <<ACCOUNTS_FILE>>
    /\ DOMAIN data_cache = {ACTUAL_FILE}
    /\ DOMAIN etag_cache = {ACTUAL_FILE}
    /\ DOMAIN last_check = {ACTUAL_FILE}
    /\ account_hierarchy.set

\* C29: a month-over-month comparison for Jan stays in the requested fiscal
\* year: previous_period is Jan, both values are the January total of that
\* year (no row of another year, and no December, enters), and variance and
\* variance_pct are 0.
C29_JanuaryClampsToItself ==
    LET v == ReturnedVariance
    IN  (v.made /\ v.comparison = "MoM" /\ v.period = "Jan")
        => /\ v.ok
           /\ v.val.previous_period = "Jan"
           /\ v.val.current_value = PeriodTotal(v.metric, v.year, "Jan")
           /\ v.val.previous_value = v.val.current_value
           /\ v.val.variance = 0
           /\ v.val.variance_pct = RatOf(0)

\* C29 witness: over the ledger with Dec FY23 = 70, Jan FY24 = 120 in all
\* and Dec FY24 = 50, the comparison for Jan returned 120 against 120.
C29_Witness ==
    /\ svc_result.op = "get_variance_analysis"
    /\ svc_result.args = <<"total", "Jan", "MoM", "FY24">>
    /\ svc_result.ok
    /\ StoredFacts = LedgerYearEnd
    /\ svc_result.val.previous_period = "Jan"
    /\ svc_result.val.current_value = 120
    /\ svc_result.val.previous_value = 120
    /\ svc_result.val.variance_pct = RatOf(0)

\* The last month of each quarter.
QuarterEnds == << <<"Q1", "Mar">>, <<"Q2", "Jun">>, <<"Q3", "Sep">>, <<"Q4", "Dec">> >>
\* The quarter tokens that occur in a text.
QuartersIn(text) == {i \in 1..Len(QuarterEnds) : Contains(text, QuarterEnds[i][1])}

\* C30: retrieve_for_diagnostic analyses, for an end_period that contains a
\* quarter token Q1..Q4, the last month of that quarter (Q1 Mar, Q2 Jun,
\* Q3 Sep, Q4 Dec), and it hands that month to the variance analysis.
C30_QuarterGivesItsLastMonth ==
    (/\ svc_result.op = "retrieve_for_diagnostic"
     /\ svc_result.ok
     /\ Truthy(svc_result.args[1].temporal.end_period)
     /\ QuartersIn(svc_result.args[1].temporal.end_period.s) # {})
        => \E i \in QuartersIn(svc_result.args[1].temporal.end_period.s) :
               /\ svc_result.val.period = QuarterEnds[i][2]
               /\ svc_result.val.variance.period = QuarterEnds[i][2]

=============================================================================
